---------------------------- MODULE Spec2Model ----------------------------
(***************************************************************************)
(* Verification model of the DTF generation endpoint (pages/api/dtf/       *)
(* generate.ts, the remove.bg + vectorizer revision):                      *)
(*                                                                         *)
(*   SpecAcq  generateBasePngs, the batch acquisition retry loop           *)
(*   Spec     generateDTF: base_generate, then the Promise.all fan-out of  *)
(*            processOne over the acquired buffers                         *)
(*   FairSpec the fan-out with every candidate's continuation scheduled    *)
(*   SpecOne  one processOne call on a buffer of any kind                  *)
(*   SpecImg  the PNGJS helpers (pad, contain, cover) and the proof        *)
(*            overlay of the sharp revisions, pixel by pixel               *)
(*   SpecGal  lib/gallery addToGallery calls overlapping on Redis          *)
(*   SpecDl   pages/api/download, the blob download proxy                   *)
(*   SpecMod  pages/api/gallery/moderate and lib/gallery setStatus          *)
(*   SpecNorm the gallery normalize endpoint next to one addToGallery call  *)
(*   SpecGen  the sharp revisions of the generate endpoint: validation and  *)
(*            print geometry of pages/api/dtf/generate and app/api/dtf/     *)
(*            generate/route                                                *)
(***************************************************************************)
EXTENDS Integers, Sequences, FiniteSets, TLC

\* ------------------------------------------------------------------ bounds
\* Largest `count` generateBasePngs is called with in SpecAcq.
MaxTarget == 6
\* Largest number of entries in one provider response (json.data).
MaxItems == 3

\* --------------------------------------------------------- program constants
\* while (remaining > 0 && attempts < 6)
AttemptCap == 6
\* const VARIATIONS = Number(process.env.VARIATIONS || 3)
VARIATIONS == 3

VARIABLES
  \* ---- generateBasePngs (locals and what it hands back)
  count,      \* parameter `count`
  accum,      \* accum: Buffer[]; a buffer is named by the attempt that fetched it
  remaining,  \* let remaining
  attempts,   \* let attempts
  reqN,       \* the `n` of the latest request body sent to the provider
  acqPc,      \* "idle" | "loop" | "returned" | "threw"
  acqErr,     \* "" | "ProviderError" | "NoCandidates"
  result,     \* the returned accum.slice(0, count)
  shortWarn,  \* console.warn('got only x/y after n attempt(s)') was emitted
  \* ---- generateDTF / processOne
  cfg,        \* request flags, configured provider keys and trim size
  gpc,        \* "idle" | "base_generate" | "fanout" | "responded"
  cand,       \* per candidate: the locals of its processOne call
  blobs,      \* names handed to BlobStore put() that were stored
  resp,       \* "pending" | "ok" | "error"  (what the handler answers)
  options,    \* the options list of a 200 answer
  \* ---- the PNGJS helpers and the proof overlay, called on their own
  imgCall,    \* the function called and its arguments
  imgRet,     \* its locals and returned image once it has run
  \* ---- lib/gallery
  galleryRedis,  \* the Upstash client is configured (galleryRedis is not null)
  galleryItems,  \* the Redis list gallery:items, head first
  galleryDocs,   \* ids that have a document gallery:item:{id}
  addPc,         \* per addToGallery call: the await it is at
  \* ---- pages/api/download
  dlReq,         \* the request: method and the url query parameter
  dlRun,         \* where the handler is, the upstream fetches made, the answer
  \* ---- pages/api/gallery/moderate, lib/gallery setStatus
  adminToken,    \* process.env.ADMIN_API_TOKEN
  docStatus,     \* the status field of each document gallery:item:{id}
  modReq,        \* the request: method, Authorization header, query token, body
  modRun,        \* where the handler is and the answer
  \* ---- the gallery normalize endpoint
  normReq,       \* the request: method, Authorization header, query token
  normRun,       \* where the handler is, its locals raw, ids, legacyItems, the answer
  \* ---- the sharp revisions of the generate endpoint
  genReq,        \* which handler, the method, the body and OPENAI_API_KEY
  genRun         \* where the handler is, its geometry, the generator calls, the answer

acqVars  == <<count, accum, remaining, attempts, reqN, acqPc, acqErr, result, shortWarn>>
pipeVars == <<cfg, gpc, cand, blobs, resp, options>>
imgVars  == <<imgCall, imgRet>>
galVars  == <<galleryRedis, galleryItems, galleryDocs, addPc>>
dlVars   == <<dlReq, dlRun>>
modVars  == <<adminToken, docStatus, modReq, modRun>>
normVars == <<normReq, normRun>>
genVars  == <<genReq, genRun>>
apiVars  == <<dlVars, modVars, normVars, genVars>>
vars     == <<count, accum, remaining, attempts, reqN, acqPc, acqErr, result, shortWarn,
              cfg, gpc, cand, blobs, resp, options,
              imgCall, imgRet, galleryRedis, galleryItems, galleryDocs, addPc,
              dlReq, dlRun, adminToken, docStatus, modReq, modRun,
              normReq, normRun, genReq, genRun>>
\* what generateBasePngs, respectively generateDTF, does not touch
notAcqVars  == <<pipeVars, imgVars, galVars, apiVars>>
notPipeVars == <<acqVars, imgVars, galVars, apiVars>>

\* no helper is being called on its own
ImgIdle ==
  /\ imgCall = [fn |-> "none"]
  /\ imgRet = [pc |-> "idle"]

\* no gallery call is in progress
GalIdle ==
  /\ galleryRedis = FALSE
  /\ galleryItems = <<>>
  /\ galleryDocs = {}
  /\ addPc = <<>>

\* no download is being served
DlIdle ==
  /\ dlReq = [method |-> "none"]
  /\ dlRun = [pc |-> "idle"]

\* no moderation request is being served
ModIdle ==
  /\ adminToken = "undefined"
  /\ docStatus = <<>>
  /\ modReq = [method |-> "none"]
  /\ modRun = [pc |-> "idle"]

\* no normalize request is being served
NormIdle ==
  /\ normReq = [method |-> "none"]
  /\ normRun = [pc |-> "idle"]

\* no request is at a sharp revision of the generate endpoint
GenIdle ==
  /\ genReq = [method |-> "none"]
  /\ genRun = [pc |-> "idle"]

ApiIdle == DlIdle /\ ModIdle /\ NormIdle /\ GenIdle

Min(a, b) == IF a < b THEN a ELSE b
Max(a, b) == IF a > b THEN a ELSE b

RECURSIVE SeqsUpTo(_, _)
SeqsUpTo(S, n) ==
  IF n = 0 THEN {<<>>}
  ELSE LET shorter == SeqsUpTo(S, n - 1)
       IN  shorter \cup {Append(s, x) : s \in {t \in shorter : Len(t) = n - 1}, x \in S}

IsPrefix(s, t) == Len(s) <= Len(t) /\ SubSeq(t, 1, Len(s)) = s

(***************************************************************************)
(* generateBasePngs                                                        *)
(***************************************************************************)
\* One entry of json.data as the loop body sees it:
\*   "b64"    it.b64_json is set
\*   "url"    only it.url is set and its fetch answers ok
\*   "url404" only it.url is set and its fetch answers !r.ok (skipped)
\*   "none"   neither field is set
ItemShapes == {"b64", "url", "url404", "none"}

ProviderResponses == SeqsUpTo(ItemShapes, MaxItems)

\* for (const it of items) if (it.b64_json) b64Buffers.push(...)
RECURSIVE b64Buffers(_, _)
b64Buffers(items, id) ==
  IF items = <<>> THEN <<>>
  ELSE IF Head(items) = "b64" THEN <<id>> \o b64Buffers(Tail(items), id)
       ELSE b64Buffers(Tail(items), id)

\* the URL fallback loop: skip entries without url and failed fetches, push the
\* rest, break once accum.length >= count
RECURSIVE urlFallback(_, _, _, _)
urlFallback(acc, items, cnt, id) ==
  IF items = <<>> THEN acc
  ELSE IF Head(items) # "url" THEN urlFallback(acc, Tail(items), cnt, id)
       ELSE LET pushed == Append(acc, id)
            IN  IF Len(pushed) >= cnt THEN pushed
                ELSE urlFallback(pushed, Tail(items), cnt, id)

\* accum after one non-empty response
Accumulate(acc, items, cnt, id) ==
  IF b64Buffers(items, id) # <<>> THEN acc \o b64Buffers(items, id)
  ELSE urlFallback(acc, items, cnt, id)

\* body: JSON.stringify({ ..., n: remaining, ... })
RequestN_count(rem, cnt) == cnt
RequestN(rem, cnt) == rem

\* while (remaining > 0 && attempts < 6)
LoopCond_noRemaining(rem, att) == att < AttemptCap
LoopCond_offByOne(rem, att) == rem > 0 /\ att <= AttemptCap
LoopCond(rem, att) == rem > 0 /\ att < AttemptCap

\* the code after the loop: throw on an empty accum, otherwise warn on a
\* shortfall and return accum.slice(0, count)
AfterLoop_returnsEmpty(acc, cnt) ==
  [pc |-> "returned", err |-> "", warn |-> Len(acc) < cnt,
   out |-> SubSeq(acc, 1, Min(cnt, Len(acc)))]
AfterLoop_throwsOnShortfall(acc, cnt) ==
  IF Len(acc) < cnt
  THEN [pc |-> "threw", err |-> IF acc = <<>> THEN "NoCandidates" ELSE "InsufficientCandidates",
        warn |-> FALSE, out |-> <<>>]
  ELSE [pc |-> "returned", err |-> "", warn |-> FALSE, out |-> SubSeq(acc, 1, cnt)]
AfterLoop(acc, cnt) ==
  IF acc = <<>>
  THEN [pc |-> "threw", err |-> "NoCandidates", warn |-> FALSE, out |-> <<>>]
  ELSE [pc |-> "returned", err |-> "", warn |-> Len(acc) < cnt,
        out |-> SubSeq(acc, 1, Min(cnt, Len(acc)))]

PipeIdle ==
  /\ cfg = [removeBg |-> FALSE, vectorize |-> FALSE, bgKey |-> FALSE,
            vecId |-> FALSE, vecSecret |-> FALSE, trimW |-> 0, trimH |-> 0]
  /\ gpc = "idle"
  /\ cand = <<>>
  /\ blobs = {}
  /\ resp = "pending"
  /\ options = <<>>

\* generateBasePngs(prompt, count, ...) entered with NEBIUS_API_KEY set; count is
\* VARIATIONS, a positive integer in every deployment explored here
InitAcq ==
  /\ count \in 1..MaxTarget
  /\ accum = <<>>
  /\ remaining = Max(1, count)
  /\ attempts = 0
  /\ reqN = 0
  /\ acqPc = "loop"
  /\ acqErr = ""
  /\ result = <<>>
  /\ shortWarn = FALSE
  /\ PipeIdle
  /\ ImgIdle
  /\ GalIdle
  /\ ApiIdle

\* one pass of the loop body whose POST answers !resp.ok (or unparsable JSON)
AttemptProviderError ==
  /\ acqPc = "loop"
  /\ LoopCond(remaining, attempts)
  /\ attempts' = attempts + 1
  /\ reqN' = RequestN(remaining, count)
  /\ acqPc' = "threw"
  /\ acqErr' = "ProviderError"
  /\ UNCHANGED <<count, accum, remaining, result, shortWarn>>
  /\ UNCHANGED notAcqVars

\* one pass whose response has no items: warn, back off 600 ms, continue
AttemptNoItems ==
  /\ acqPc = "loop"
  /\ LoopCond(remaining, attempts)
  /\ attempts' = attempts + 1
  /\ reqN' = RequestN(remaining, count)
  /\ UNCHANGED <<count, accum, remaining, acqPc, acqErr, result, shortWarn>>
  /\ UNCHANGED notAcqVars

\* one pass whose response has items: accumulate, recompute remaining
AttemptItems ==
  /\ acqPc = "loop"
  /\ LoopCond(remaining, attempts)
  /\ \E items \in ProviderResponses \ {<<>>} :
       /\ attempts' = attempts + 1
       /\ reqN' = RequestN(remaining, count)
       /\ accum' = Accumulate(accum, items, count, attempts + 1)
       /\ remaining' = count - Len(accum')
  /\ UNCHANGED <<count, acqPc, acqErr, result, shortWarn>>
  /\ UNCHANGED notAcqVars

\* the loop condition is false: run the code after the loop
LoopExit ==
  /\ acqPc = "loop"
  /\ ~LoopCond(remaining, attempts)
  /\ LET r == AfterLoop(accum, count)
     IN  /\ acqPc' = r.pc
         /\ acqErr' = r.err
         /\ shortWarn' = r.warn
         /\ result' = r.out
  /\ UNCHANGED <<count, accum, remaining, attempts, reqN>>
  /\ UNCHANGED notAcqVars

NextAcq == AttemptProviderError \/ AttemptNoItems \/ AttemptItems \/ LoopExit

SpecAcq == InitAcq /\ [][NextAcq]_vars

\* every awaited fetch settles, so the loop keeps stepping until it exits
FairSpecAcq == SpecAcq /\ WF_vars(NextAcq)

AcqTerminal == acqPc \in {"returned", "threw"}
\* the code after the loop has run (the loop was left by its condition)
AcqLoopLeft == AcqTerminal /\ acqErr # "ProviderError"

\* buffers the provider call of attempt a contributed
Yield(a) == Cardinality({i \in 1..Len(accum) : accum[i] = a})


(***************************************************************************)
(* processOne and generateDTF                                              *)
(***************************************************************************)
\* A byte buffer: the candidate it belongs to, what its bytes are, and the
\* transformations applied to the provider's image so far.
\*   fmt "png"   starts with the PNG signature and decodes with pngjs
\*   fmt "jpeg"  no PNG signature, image-js can decode it
\*   fmt "junk"  no PNG signature, image-js cannot decode it
BufferKinds == {"png", "jpeg", "junk"}

NoBuf == [src |-> 0, fmt |-> "none", ops |-> <<>>]

Buf(i, kind) == [src |-> i, fmt |-> kind, ops |-> <<>>]

\* isPng: the 8-byte signature test
isPng(buf) == buf.fmt = "png"

\* ensurePng: PNG as is; otherwise re-encode through image-js; when that throws,
\* pass the original bytes through
ensurePng_reencodesBlindly(buf) ==
  IF isPng(buf) THEN [png |-> buf, isActuallyPng |-> TRUE]
  ELSE [png |-> [buf EXCEPT !.fmt = "png", !.ops = Append(@, "reencode")],
        isActuallyPng |-> FALSE]
ensurePng(buf) ==
  IF isPng(buf) THEN [png |-> buf, isActuallyPng |-> TRUE]
  ELSE IF buf.fmt = "jpeg"
       THEN [png |-> [buf EXCEPT !.fmt = "png", !.ops = Append(@, "reencode")],
             isActuallyPng |-> FALSE]
       ELSE [png |-> buf, isActuallyPng |-> FALSE]

\* PNG.sync.read(pngBuf) succeeds
Decodes(buf) == buf.fmt = "png"

\* removeBackground on a 2xx answer: the provider's PNG of the same picture
removeBackground(buf) == [buf EXCEPT !.fmt = "png", !.ops = Append(@, "removebg")]

\* padTransparentPng on a decodable PNG
padTransparentPng(buf) == [buf EXCEPT !.ops = Append(@, "pad")]

\* resizeContainWithPngjs writes into new PNG({width: targetW, height: targetH});
\* with a target side < 1 that canvas has no data and the copy throws
ResizeOk(buf, targetW, targetH) == Decodes(buf) /\ targetW >= 1 /\ targetH >= 1

resizeContainWithPngjs(buf, targetW, targetH) ==
  [buf EXCEPT !.ops = Append(@, "contain")]

\* generateDTF: removeBg && !!REMOVE_BG_KEY
doRemoveBg(c) == c.removeBg /\ c.bgKey
\* generateDTF: vectorize && !!VECTORIZER_ID && !!VECTORIZER_SECRET
doVectorize_idOnly(c) == c.vectorize /\ c.vecId
doVectorize(c) == c.vectorize /\ c.vecId /\ c.vecSecret

\* the catch around removeBackground leaves `normalized` as it was
AfterRemoveBgFailure_empty(normalized) == NoBuf
AfterRemoveBgFailure(normalized) == normalized

\* the statement order of processOne: the stage that runs after `stage`
NextStage_vectorizeFirst(stage, c) ==
  CASE stage = "normalize" ->
         IF doVectorize(c) THEN "vectorize"
         ELSE IF doRemoveBg(c) THEN "removebg" ELSE "pad_margin"
    [] stage = "vectorize" -> IF doRemoveBg(c) THEN "removebg" ELSE "pad_margin"
    [] stage = "removebg" -> "pad_margin"
    [] stage = "pad_margin" -> "resize_trim"
    [] stage = "resize_trim" -> "finalize"
    [] OTHER -> "done"
NextStage(stage, c) ==
  CASE stage = "normalize" ->
         IF doRemoveBg(c) THEN "removebg"
         ELSE IF doVectorize(c) THEN "vectorize" ELSE "pad_margin"
    [] stage = "removebg" -> IF doVectorize(c) THEN "vectorize" ELSE "pad_margin"
    [] stage = "vectorize" -> "pad_margin"
    [] stage = "pad_margin" -> "resize_trim"
    [] stage = "resize_trim" -> "finalize"
    [] OTHER -> "done"

\* the trim sizes px(widthIn), px(heightIn) of the requests explored: a width
\* that rounds to 0 px (widthIn = 0.001) or a proper one, and a proper height
TrimWidths == {0, 3}
TrimHeights == {3}

\* what the provider's buffers are in the fan-out: the request body asks for
\* image_format 'png', so a buffer is a PNG or bytes no decoder here reads
ProviderKinds == {"png", "junk"}

Configs ==
  [removeBg : BOOLEAN, vectorize : BOOLEAN, bgKey : BOOLEAN,
   vecId : BOOLEAN, vecSecret : BOOLEAN, trimW : TrimWidths, trimH : TrimHeights]

\* processOne(buf, trimW, trimH, idx, ...) entered, up to its first await
NewCandidate(i, kind) ==
  [pc |-> "normalize", base |-> Buf(i, kind), normalized |-> NoBuf,
   padded |-> NoBuf, resized |-> NoBuf, vecIn |-> NoBuf, padIn |-> NoBuf,
   svgUrl |-> FALSE, vectorPngUrl |-> FALSE, stageLog |-> <<>>]

Cands == DOMAIN cand
Done(i) == cand[i].pc = "done"
Failed(i) == cand[i].pc = "failed"
Settled(i) == Done(i) \/ Failed(i)

\* OptionOut of a finished candidate
OptionOut(c) ==
  [finalRaster |-> c.resized, svgUrl |-> c.svgUrl, vectorPngUrl |-> c.vectorPngUrl,
   stageLog |-> c.stageLog]

\* await Promise.all(bases.map(...)) inside the handler's try/catch: the first
\* rejection answers 500, all fulfilled answers 200 with every option
PromiseAll(r, cs) ==
  IF r # "pending" THEN r
  ELSE IF \E i \in DOMAIN cs : cs[i].pc = "failed" THEN "error"
  ELSE IF \A i \in DOMAIN cs : cs[i].pc = "done" THEN "ok"
  ELSE "pending"

Answer(cs) ==
  /\ resp' = PromiseAll(resp, cs)
  /\ options' = IF resp = "pending" /\ resp' = "ok"
                THEN [i \in DOMAIN cs |-> OptionOut(cs[i])]
                ELSE options
  /\ gpc' = IF resp' = "pending" THEN gpc ELSE "responded"

AcqIdle ==
  /\ count = VARIATIONS
  /\ accum = <<>>
  /\ remaining = 0
  /\ attempts = 0
  /\ reqN = 0
  /\ acqPc = "idle"
  /\ acqErr = ""
  /\ result = <<>>
  /\ shortWarn = FALSE

\* generateDTF entered by the handler with a validated body
Init ==
  /\ AcqIdle
  /\ cfg \in Configs
  /\ gpc = "base_generate"
  /\ cand = <<>>
  /\ blobs = {}
  /\ resp = "pending"
  /\ options = <<>>
  /\ ImgIdle
  /\ GalIdle
  /\ ApiIdle

\* step('base_generate') rejects: generateBasePngs threw
BaseGenerateFails ==
  /\ gpc = "base_generate"
  /\ gpc' = "responded"
  /\ resp' = "error"
  /\ UNCHANGED <<cfg, cand, blobs, options>>
  /\ UNCHANGED notPipeVars

\* step('base_generate') resolves with 1..count buffers (what generateBasePngs
\* can return, see SpecAcq) and bases.map starts one processOne per buffer
BaseGenerateReturns ==
  /\ gpc = "base_generate"
  /\ \E bases \in SeqsUpTo(ProviderKinds, count) \ {<<>>} :
       cand' = [i \in 1..Len(bases) |-> NewCandidate(i, bases[i])]
  /\ gpc' = "fanout"
  /\ UNCHANGED <<cfg, blobs, resp, options>>
  /\ UNCHANGED notPipeVars

Log(c, stage, outcome) == Append(c.stageLog, <<stage, outcome>>)

\* step(`normalize_${idx}`, () => ensurePng(baseBuf))
Normalize(i) ==
  /\ cand[i].pc = "normalize"
  /\ cand' = [cand EXCEPT ![i] =
       [cand[i] EXCEPT !.normalized = ensurePng(cand[i].base).png,
                 !.stageLog = Log(cand[i], "normalize", "Ok"),
                 !.pc = NextStage("normalize", cfg)]]
  /\ UNCHANGED <<cfg, gpc, blobs, resp, options>>
  /\ UNCHANGED notPipeVars

\* remove.bg answers 2xx
RemoveBgOk(i) ==
  /\ cand[i].pc = "removebg"
  /\ cand' = [cand EXCEPT ![i] =
       [cand[i] EXCEPT !.normalized = removeBackground(cand[i].normalized),
                 !.stageLog = Log(cand[i], "removebg", "Ok"),
                 !.pc = NextStage("removebg", cfg)]]
  /\ UNCHANGED <<cfg, gpc, blobs, resp, options>>
  /\ UNCHANGED notPipeVars

\* remove.bg fails: caught, console.warn, carry on
RemoveBgFails(i) ==
  /\ cand[i].pc = "removebg"
  /\ cand' = [cand EXCEPT ![i] =
       [cand[i] EXCEPT !.normalized = AfterRemoveBgFailure(cand[i].normalized),
                 !.stageLog = Log(cand[i], "removebg", "SkippedOptional"),
                 !.pc = NextStage("removebg", cfg)]]
  /\ UNCHANGED <<cfg, gpc, blobs, resp, options>>
  /\ UNCHANGED notPipeVars

\* vectorizer.ai fails, or the put of the SVG throws: caught, console.warn
VectorizeFails(i) ==
  /\ cand[i].pc = "vectorize"
  /\ cand' = [cand EXCEPT ![i] =
       [cand[i] EXCEPT !.vecIn = cand[i].normalized,
                 !.stageLog = Log(cand[i], "vectorize", "SkippedOptional"),
                 !.pc = NextStage("vectorize", cfg)]]
  /\ UNCHANGED <<cfg, gpc, blobs, resp, options>>
  /\ UNCHANGED notPipeVars

\* the SVG is stored; no token, or the PNG download or its put fails
VectorizeSvg(i) ==
  /\ cand[i].pc = "vectorize"
  /\ cand' = [cand EXCEPT ![i] =
       [cand[i] EXCEPT !.vecIn = cand[i].normalized,
                 !.svgUrl = TRUE,
                 !.stageLog = Log(cand[i], "vectorize", "Ok"),
                 !.pc = NextStage("vectorize", cfg)]]
  /\ blobs' = blobs \cup {<<i, "svg">>}
  /\ UNCHANGED <<cfg, gpc, resp, options>>
  /\ UNCHANGED notPipeVars

\* the SVG and the vector PNG fetched with the image token are both stored
VectorizeSvgAndPng(i) ==
  /\ cand[i].pc = "vectorize"
  /\ cand' = [cand EXCEPT ![i] =
       [cand[i] EXCEPT !.vecIn = cand[i].normalized,
                 !.svgUrl = TRUE,
                 !.vectorPngUrl = TRUE,
                 !.stageLog = Log(cand[i], "vectorize", "Ok"),
                 !.pc = NextStage("vectorize", cfg)]]
  /\ blobs' = blobs \cup {<<i, "svg">>, <<i, "vector.png">>}
  /\ UNCHANGED <<cfg, gpc, resp, options>>
  /\ UNCHANGED notPipeVars

\* step(`pad_margin_${idx}`) resolves
PadMargin(i) ==
  /\ cand[i].pc = "pad_margin"
  /\ Decodes(cand[i].normalized)
  /\ cand' = [cand EXCEPT ![i] =
       [cand[i] EXCEPT !.padIn = cand[i].normalized,
                 !.padded = padTransparentPng(cand[i].normalized),
                 !.stageLog = Log(cand[i], "pad_margin", "Ok"),
                 !.pc = NextStage("pad_margin", cfg)]]
  /\ UNCHANGED <<cfg, gpc, blobs, resp, options>>
  /\ UNCHANGED notPipeVars

\* PNG.sync.read throws inside padTransparentPng: processOne rejects
PadMarginFails(i) ==
  /\ cand[i].pc = "pad_margin"
  /\ ~Decodes(cand[i].normalized)
  /\ cand' = [cand EXCEPT ![i] =
       [cand[i] EXCEPT !.padIn = cand[i].normalized,
                 !.stageLog = Log(cand[i], "pad_margin", "Failed"),
                 !.pc = "failed"]]
  /\ Answer(cand')
  /\ UNCHANGED <<cfg, blobs>>
  /\ UNCHANGED notPipeVars

\* step(`resize_trim_${idx}`) resolves
ResizeTrim(i) ==
  /\ cand[i].pc = "resize_trim"
  /\ ResizeOk(cand[i].padded, cfg.trimW, cfg.trimH)
  /\ cand' = [cand EXCEPT ![i] =
       [cand[i] EXCEPT !.resized = resizeContainWithPngjs(cand[i].padded, cfg.trimW, cfg.trimH),
                 !.stageLog = Log(cand[i], "resize_trim", "Ok"),
                 !.pc = NextStage("resize_trim", cfg)]]
  /\ UNCHANGED <<cfg, gpc, blobs, resp, options>>
  /\ UNCHANGED notPipeVars

\* resizeContainWithPngjs throws: processOne rejects
ResizeTrimFails(i) ==
  /\ cand[i].pc = "resize_trim"
  /\ ~ResizeOk(cand[i].padded, cfg.trimW, cfg.trimH)
  /\ cand' = [cand EXCEPT ![i] =
       [cand[i] EXCEPT !.stageLog = Log(cand[i], "resize_trim", "Failed"),
                 !.pc = "failed"]]
  /\ Answer(cand')
  /\ UNCHANGED <<cfg, blobs>>
  /\ UNCHANGED notPipeVars

\* put(`dtf/${id}-opt${idx}.png`, resized) resolves: processOne returns
Finalize(i) ==
  /\ cand[i].pc = "finalize"
  /\ cand' = [cand EXCEPT ![i] =
       [cand[i] EXCEPT !.stageLog = Log(cand[i], "finalize", "Ok"),
                 !.pc = NextStage("finalize", cfg)]]
  /\ blobs' = blobs \cup {<<i, "print.png">>}
  /\ Answer(cand')
  /\ UNCHANGED cfg
  /\ UNCHANGED notPipeVars

\* the put of the print PNG throws: processOne rejects
FinalizeFails(i) ==
  /\ cand[i].pc = "finalize"
  /\ cand' = [cand EXCEPT ![i] =
       [cand[i] EXCEPT !.stageLog = Log(cand[i], "finalize", "Failed"),
                 !.pc = "failed"]]
  /\ Answer(cand')
  /\ UNCHANGED <<cfg, blobs>>
  /\ UNCHANGED notPipeVars

Next ==
  \/ BaseGenerateFails
  \/ BaseGenerateReturns
  \/ \E i \in Cands : Normalize(i)
  \/ \E i \in Cands : RemoveBgOk(i)
  \/ \E i \in Cands : RemoveBgFails(i)
  \/ \E i \in Cands : VectorizeFails(i)
  \/ \E i \in Cands : VectorizeSvg(i)
  \/ \E i \in Cands : VectorizeSvgAndPng(i)
  \/ \E i \in Cands : PadMargin(i)
  \/ \E i \in Cands : PadMarginFails(i)
  \/ \E i \in Cands : ResizeTrim(i)
  \/ \E i \in Cands : ResizeTrimFails(i)
  \/ \E i \in Cands : Finalize(i)
  \/ \E i \in Cands : FinalizeFails(i)

Spec == Init /\ [][Next]_vars

\* generateDTF when base_generate has returned a single buffer, of any kind a
\* URL fetch can deliver: processOne(bases[0], trimW, trimH, 1, ..) on its own
InitOne ==
  /\ AcqIdle
  /\ cfg \in Configs
  /\ gpc = "fanout"
  /\ \E kind \in BufferKinds : cand = <<NewCandidate(1, kind)>>
  /\ blobs = {}
  /\ resp = "pending"
  /\ options = <<>>
  /\ ImgIdle
  /\ GalIdle
  /\ ApiIdle

NextOne ==
  \/ \E i \in Cands : Normalize(i)
  \/ \E i \in Cands : RemoveBgOk(i)
  \/ \E i \in Cands : RemoveBgFails(i)
  \/ \E i \in Cands : VectorizeFails(i)
  \/ \E i \in Cands : VectorizeSvg(i)
  \/ \E i \in Cands : VectorizeSvgAndPng(i)
  \/ \E i \in Cands : PadMargin(i)
  \/ \E i \in Cands : PadMarginFails(i)
  \/ \E i \in Cands : ResizeTrim(i)
  \/ \E i \in Cands : ResizeTrimFails(i)
  \/ \E i \in Cands : Finalize(i)
  \/ \E i \in Cands : FinalizeFails(i)

SpecOne == InitOne /\ [][NextOne]_vars

\* the continuation of processOne(.., idx = i, ..) that is ready to run: nothing
\* in processOne or generateDTF looks at its siblings or at the answer
CandStep_untilAnswered(i) ==
  /\ resp = "pending"
  /\ i \in Cands
  /\ \/ Normalize(i) \/ RemoveBgOk(i) \/ RemoveBgFails(i)
     \/ VectorizeFails(i) \/ VectorizeSvg(i) \/ VectorizeSvgAndPng(i)
     \/ PadMargin(i) \/ PadMarginFails(i)
     \/ ResizeTrim(i) \/ ResizeTrimFails(i)
     \/ Finalize(i) \/ FinalizeFails(i)
CandStep(i) ==
  /\ i \in Cands
  /\ \/ Normalize(i) \/ RemoveBgOk(i) \/ RemoveBgFails(i)
     \/ VectorizeFails(i) \/ VectorizeSvg(i) \/ VectorizeSvgAndPng(i)
     \/ PadMargin(i) \/ PadMarginFails(i)
     \/ ResizeTrim(i) \/ ResizeTrimFails(i)
     \/ Finalize(i) \/ FinalizeFails(i)

\* generateDTF entered in a deployment that has all three provider credentials
InitConfigured == Init /\ cfg.bgKey /\ cfg.vecId /\ cfg.vecSecret

\* every awaited call of every candidate settles and the event loop runs its
\* continuation, whatever the other candidates do
FairSpec ==
  /\ InitConfigured
  /\ [][Next]_vars
  /\ \A i \in 1..VARIATIONS : WF_vars(CandStep(i))

(***************************************************************************)
(* The PNGJS helpers on pixels: padTransparentPng, resizeContainWithPngjs, *)
(* resizeCoverWithPngjs                                                    *)
(***************************************************************************)
\* A decoded PNG: width, height and data, the RGBA pixels in row order (data is
\* indexed by pixel, 0 .. width*height-1; a pixel is <<r, g, b, a>>).
Transparent == <<0, 0, 0, 0>>
Red == <<255, 0, 0, 255>>

PixelCount(img) == img.width * img.height
XOf(img, k) == k % img.width
YOf(img, k) == k \div img.width

\* new PNG({ width, height }): a zero-filled (transparent) image
NewPNG(w, h) == [width |-> w, height |-> h, data |-> [k \in 0..(w * h - 1) |-> Transparent]]

\* the source pictures explored, by side lengths and pattern:
\*   "uniform"  every pixel opaque red
\*   "index"    every pixel opaque, no two pixels alike
\*   "checker"  opaque red and transparent pixels alternating
Patterns == {"uniform", "index", "checker"}

PatternPixel(pat, w, k) ==
  CASE pat = "uniform" -> Red
    [] pat = "index" -> <<k + 1, k % w, k \div w, 255>>
    [] OTHER -> IF ((k % w) + (k \div w)) % 2 = 0 THEN Red ELSE Transparent

SourceImage(w, h, pat) ==
  [width |-> w, height |-> h, data |-> [k \in 0..(w * h - 1) |-> PatternPixel(pat, w, k)]]

\* Math.round(n / d) for d > 0: the nearest integer, halves towards +infinity
MathRound(n, d) == (2 * n + d) \div (2 * d)

\* storing a number into a Buffer element keeps it modulo 2^8
ToUint8(v) == v % 256

\* the row loop shared by padTransparentPng and resizeContainWithPngjs:
\*   for y: out.data.set(src.data.subarray(y*w*4, y*w*4 + w*4), ((y+offY)*outW + offX)*4)
\* the last write to a position wins; positions never written stay transparent
RowStart(outW, offX, offY, y) == (y + offY) * outW + offX
CopyRows(out, src, offX, offY) ==
  [out EXCEPT !.data =
     [k \in DOMAIN out.data |->
        LET rows == {y \in 0..(src.height - 1) :
                       /\ k >= RowStart(out.width, offX, offY, y)
                       /\ k < RowStart(out.width, offX, offY, y) + src.width}
        IN  IF rows = {} THEN out.data[k]
            ELSE LET y == CHOOSE r \in rows : \A q \in rows : q <= r
                 IN  src.data[y * src.width + (k - RowStart(out.width, offX, offY, y))]]]
\* no out.data.set(..) of the loop throws (it throws a RangeError when the row
\* does not fit in the buffer)
CopyRowsFits(out, src, offX, offY) ==
  \A y \in 0..(src.height - 1) :
    RowStart(out.width, offX, offY, y) + src.width <= PixelCount(out)

\* ---- padTransparentPng(pngBuf, marginFraction); the fraction is num/den
\* const pad = Math.max(1, Math.floor(base * Math.max(0, marginFraction)))
PadOf_noFloorOfOne(w, h, mf) == (Min(w, h) * Max(0, mf[1])) \div mf[2]
PadOf(w, h, mf) == Max(1, (Min(w, h) * Max(0, mf[1])) \div mf[2])

padTransparentPngPx(src, mf) ==
  LET pad == PadOf(src.width, src.height, mf)
      outW == src.width + 2 * pad
      outH == src.height + 2 * pad
  IN  [pad |-> pad, out |-> CopyRows(NewPNG(outW, outH), src, pad, pad)]

\* ---- the scale factor, kept as the fraction <<num, den>> it is computed from
\* contain: Math.min(targetW / src.width, targetH / src.height)
ContainScale_max(sw, sh, targetW, targetH) ==
  IF targetW * sh >= targetH * sw THEN <<targetW, sw>> ELSE <<targetH, sh>>
ContainScale(sw, sh, targetW, targetH) ==
  IF targetW * sh <= targetH * sw THEN <<targetW, sw>> ELSE <<targetH, sh>>
\* cover: Math.max(targetW / src.width, targetH / src.height)
CoverScale_min(sw, sh, targetW, targetH) ==
  IF targetW * sh <= targetH * sw THEN <<targetW, sw>> ELSE <<targetH, sh>>
CoverScale(sw, sh, targetW, targetH) ==
  IF targetW * sh >= targetH * sw THEN <<targetW, sw>> ELSE <<targetH, sh>>

\* Math.max(1, Math.round(side * scale))
ScaledSide(side, scale) == Max(1, MathRound(side * scale[1], scale[2]))

\* ---- the bilinear taps of one axis, for destination coordinate d
\* g = (d + 0.5) / scale - 0.5, as the fraction SampleNum / SampleDen
SampleNum(d, scale) == (2 * d + 1) * scale[2] - scale[1]
SampleDen(scale) == 2 * scale[1]
\* const y0 = Math.max(0, Math.floor(gy))
Tap0(d, scale) == Max(0, SampleNum(d, scale) \div SampleDen(scale))
\* const y1 = Math.min(src.height - 1, y0 + 1)
Tap1(d, scale, size) == Min(size - 1, Tap0(d, scale) + 1)
\* const wy1 = gy - y0, wy0 = 1 - wy1, both over SampleDen
Weight1(d, scale) == SampleNum(d, scale) - Tap0(d, scale) * SampleDen(scale)
Weight0_one(d, scale) == SampleDen(scale)
Weight0(d, scale) == SampleDen(scale) - Weight1(d, scale)

\* sData[i + c]: reading past the end of the Buffer gives undefined, every
\* product with it is NaN, and NaN is stored as 0
InData(img, k) == k >= 0 /\ k < PixelCount(img)

Bilinear(src, scale, x, y) ==
  LET x0 == Tap0(x, scale)
      x1 == Tap1(x, scale, src.width)
      y0 == Tap0(y, scale)
      y1 == Tap1(y, scale, src.height)
      wx1 == Weight1(x, scale)
      wx0 == Weight0(x, scale)
      wy1 == Weight1(y, scale)
      wy0 == Weight0(y, scale)
      i00 == y0 * src.width + x0
      i10 == y0 * src.width + x1
      i01 == y1 * src.width + x0
      i11 == y1 * src.width + x1
      den == SampleDen(scale) * SampleDen(scale)
  IN  IF ~(InData(src, i00) /\ InData(src, i10) /\ InData(src, i01) /\ InData(src, i11))
      THEN Transparent
      ELSE [c \in 1..4 |->
              LET v0 == src.data[i00][c] * wx0 + src.data[i10][c] * wx1
                  v1 == src.data[i01][c] * wx0 + src.data[i11][c] * wx1
              IN  ToUint8(MathRound(v0 * wy0 + v1 * wy1, den))]

\* const offsetX = Math.max(0, Math.floor((targetW - scaledW) / 2))
OffsetOf_zero(target, scaled) == 0
OffsetOf(target, scaled) == Max(0, (target - scaled) \div 2)

\* ---- resizeContainWithPngjs(pngBuf, targetW, targetH), with its locals
resizeContainWithPngjsPx(src, targetW, targetH) ==
  LET scale == ContainScale(src.width, src.height, targetW, targetH)
      scaledW == ScaledSide(src.width, scale)
      scaledH == ScaledSide(src.height, scale)
      scaled == [width |-> scaledW, height |-> scaledH,
                 data |-> [k \in 0..(scaledW * scaledH - 1) |->
                             Bilinear(src, scale, k % scaledW, k \div scaledW)]]
      offsetX == OffsetOf(targetW, scaledW)
      offsetY == OffsetOf(targetH, scaledH)
  IN  [scale |-> scale, scaledW |-> scaledW, scaledH |-> scaledH, scaled |-> scaled,
       offsetX |-> offsetX, offsetY |-> offsetY,
       fits |-> CopyRowsFits(NewPNG(targetW, targetH), scaled, offsetX, offsetY),
       out |-> CopyRows(NewPNG(targetW, targetH), scaled, offsetX, offsetY)]

\* ---- resizeCoverWithPngjs(pngBuf, targetW, targetH), with its locals
\* const sy = Math.min(src.height - 1, Math.floor(y / scale))
Nearest(d, scale, size) == Min(size - 1, (d * scale[2]) \div scale[1])
\* const cropX = Math.max(0, Math.floor((scaledW - targetW) / 2))
CropOf(scaled, target) == Max(0, (scaled - target) \div 2)

resizeCoverWithPngjsPx(src, targetW, targetH) ==
  LET scale == CoverScale(src.width, src.height, targetW, targetH)
      scaledW == ScaledSide(src.width, scale)
      scaledH == ScaledSide(src.height, scale)
      scaled == [width |-> scaledW, height |-> scaledH,
                 data |-> [k \in 0..(scaledW * scaledH - 1) |->
                             src.data[Nearest(k \div scaledW, scale, src.height) * src.width
                                      + Nearest(k % scaledW, scale, src.width)]]]
      cropX == CropOf(scaledW, targetW)
      cropY == CropOf(scaledH, targetH)
      si(k) == ((k \div targetW) + cropY) * scaledW + (k % targetW) + cropX
  IN  [scale |-> scale, scaledW |-> scaledW, scaledH |-> scaledH,
       cropX |-> cropX, cropY |-> cropY,
       inside |-> \A k \in 0..(targetW * targetH - 1) :
                     /\ (k % targetW) + cropX < scaledW
                     /\ (k \div targetW) + cropY < scaledH,
       out |-> [width |-> targetW, height |-> targetH,
                data |-> [k \in 0..(targetW * targetH - 1) |->
                            IF InData(scaled, si(k)) THEN scaled.data[si(k)]
                            ELSE Transparent]]]

(***************************************************************************)
(* The proof overlay of the sharp revisions (trim = red, safe = green)     *)
(***************************************************************************)
\* const dpi = 300; const bleedIn = 0.125. Lengths in inches are kept in
\* thousandths of an inch.
Dpi == 300
BleedIn == 125

\* const px = (inches, dpi = 300) => Math.round(inches * dpi)
px(inches) == MathRound(inches * Dpi, 1000)

\* the composite list: left, top, width, height and colour of each line(...)
ProofRects_safeBottomOff(finalW, finalH) ==
  LET bleedPx == px(BleedIn)
      safeInset == bleedPx + px(125)
  IN  << [left |-> 0, top |-> bleedPx, w |-> finalW, h |-> 2, colour |-> "red"],
         [left |-> 0, top |-> finalH - bleedPx - 2, w |-> finalW, h |-> 2, colour |-> "red"],
         [left |-> bleedPx, top |-> 0, w |-> 2, h |-> finalH, colour |-> "red"],
         [left |-> finalW - bleedPx - 2, top |-> 0, w |-> 2, h |-> finalH, colour |-> "red"],
         [left |-> safeInset, top |-> safeInset, w |-> finalW - safeInset * 2, h |-> 2,
          colour |-> "green"],
         [left |-> safeInset, top |-> finalH - safeInset, w |-> finalW - safeInset * 2,
          h |-> 2, colour |-> "green"],
         [left |-> safeInset, top |-> safeInset, w |-> 2, h |-> finalH - safeInset * 2,
          colour |-> "green"],
         [left |-> finalW - safeInset - 2, top |-> safeInset, w |-> 2,
          h |-> finalH - safeInset * 2, colour |-> "green"] >>
ProofRects(finalW, finalH) ==
  LET bleedPx == px(BleedIn)
      safeInset == bleedPx + px(125)
  IN  << [left |-> 0, top |-> bleedPx, w |-> finalW, h |-> 2, colour |-> "red"],
         [left |-> 0, top |-> finalH - bleedPx - 2, w |-> finalW, h |-> 2, colour |-> "red"],
         [left |-> bleedPx, top |-> 0, w |-> 2, h |-> finalH, colour |-> "red"],
         [left |-> finalW - bleedPx - 2, top |-> 0, w |-> 2, h |-> finalH, colour |-> "red"],
         [left |-> safeInset, top |-> safeInset, w |-> finalW - safeInset * 2, h |-> 2,
          colour |-> "green"],
         [left |-> safeInset, top |-> finalH - safeInset - 2, w |-> finalW - safeInset * 2,
          h |-> 2, colour |-> "green"],
         [left |-> safeInset, top |-> safeInset, w |-> 2, h |-> finalH - safeInset * 2,
          colour |-> "green"],
         [left |-> finalW - safeInset - 2, top |-> safeInset, w |-> 2,
          h |-> finalH - safeInset * 2, colour |-> "green"] >>

\* sharp({ create: { width, height, .. } }) rejects a side that is not positive
LineThrows(rects) == \E j \in 1..Len(rects) : rects[j].w < 1 \/ rects[j].h < 1

Covers(rect, x, y) ==
  /\ x >= rect.left /\ x < rect.left + rect.w
  /\ y >= rect.top /\ y < rect.top + rect.h

\* finalPng, the bleed canvas the overlay is drawn on: its size and the pattern
\* of its pixels
FinalPixel(finalPng, k) == PatternPixel(finalPng.pat, finalPng.width, k)

\* sharp(finalPng).composite([...]): a new image; each pixel is the pixel of
\* finalPng with the lines covering it blended over it in list order. The
\* proof is kept as the image under it and the lines composited, a proof pixel
\* as <<pixel of finalPng, colour, colour, ..>>.
RECURSIVE Layers(_, _, _)
Layers(rects, x, y) ==
  IF rects = <<>> THEN <<>>
  ELSE (IF Covers(Head(rects), x, y) THEN <<Head(rects).colour>> ELSE <<>>)
         \o Layers(Tail(rects), x, y)

Composite(finalPng, rects) ==
  [width |-> finalPng.width, height |-> finalPng.height, under |-> finalPng, lines |-> rects]

ProofPixel(proofPng, k) ==
  <<FinalPixel(proofPng.under, k)>> \o Layers(proofPng.lines, XOf(proofPng, k), YOf(proofPng, k))

(***************************************************************************)
(* The helpers called on their own                                         *)
(***************************************************************************)
\* largest side of a source picture, largest side of a resize target
MaxSide == 3
MaxTrim == 4

\* marginFraction as <<num, den>>; MARGIN_FRACTION defaults to 0.12
Margins == {<<-1, 2>>, <<0, 1>>, <<12, 100>>, <<1, 2>>, <<9, 10>>}

Sources == {SourceImage(w, h, pat) : w \in 1..MaxSide, h \in 1..MaxSide, pat \in Patterns}

\* widthIn, heightIn of the proof requests, in thousandths of an inch
ProofWidthsIn == {250, 260, 300}
ProofHeightsIn == {260, 280}

notImgVars == <<acqVars, pipeVars, galVars, apiVars>>

InitImg ==
  /\ AcqIdle
  /\ PipeIdle
  /\ GalIdle
  /\ ApiIdle
  /\ imgRet = [pc |-> "idle"]
  /\ \/ \E src \in Sources, mf \in Margins :
          imgCall = [fn |-> "pad", src |-> src, marginFraction |-> mf]
     \/ \E src \in Sources, tw \in 1..MaxTrim, th \in 1..MaxTrim :
          imgCall = [fn |-> "contain", src |-> src, targetW |-> tw, targetH |-> th]
     \/ imgCall = [fn |-> "contain", src |-> SourceImage(100, 100, "uniform"),
                   targetW |-> 50, targetH |-> 50]
     \/ \E src \in Sources, tw \in 1..MaxTrim, th \in 1..MaxTrim :
          imgCall = [fn |-> "cover", src |-> src, targetW |-> tw, targetH |-> th]
     \/ \E wIn \in ProofWidthsIn, hIn \in ProofHeightsIn, pat \in {"uniform", "checker"} :
          imgCall = [fn |-> "proof", widthIn |-> wIn, heightIn |-> hIn,
                     finalPng |-> [width |-> px(wIn + 2 * BleedIn),
                                   height |-> px(hIn + 2 * BleedIn), pat |-> pat]]

CallPad ==
  /\ imgCall.fn = "pad" /\ imgRet.pc = "idle"
  /\ imgRet' = [pc |-> "returned", r |-> padTransparentPngPx(imgCall.src, imgCall.marginFraction)]
  /\ UNCHANGED imgCall
  /\ UNCHANGED notImgVars

CallContain ==
  /\ imgCall.fn = "contain" /\ imgRet.pc = "idle"
  /\ imgRet' = [pc |-> "returned",
                r |-> resizeContainWithPngjsPx(imgCall.src, imgCall.targetW, imgCall.targetH)]
  /\ UNCHANGED imgCall
  /\ UNCHANGED notImgVars

CallCover ==
  /\ imgCall.fn = "cover" /\ imgRet.pc = "idle"
  /\ imgRet' = [pc |-> "returned",
                r |-> resizeCoverWithPngjsPx(imgCall.src, imgCall.targetW, imgCall.targetH)]
  /\ UNCHANGED imgCall
  /\ UNCHANGED notImgVars

\* the proof step resolves with proofPng
CallProof ==
  /\ imgCall.fn = "proof" /\ imgRet.pc = "idle"
  /\ LET rects == ProofRects(imgCall.finalPng.width, imgCall.finalPng.height)
     IN  /\ ~LineThrows(rects)
         /\ imgRet' = [pc |-> "returned", proofPng |-> Composite(imgCall.finalPng, rects)]
  /\ UNCHANGED imgCall
  /\ UNCHANGED notImgVars

\* a line(...) with a non-positive side rejects: the request answers 500
CallProofThrows ==
  /\ imgCall.fn = "proof" /\ imgRet.pc = "idle"
  /\ LineThrows(ProofRects(imgCall.finalPng.width, imgCall.finalPng.height))
  /\ imgRet' = [pc |-> "threw"]
  /\ UNCHANGED imgCall
  /\ UNCHANGED notImgVars

NextImg == CallPad \/ CallContain \/ CallCover \/ CallProof \/ CallProofThrows

SpecImg == InitImg /\ [][NextImg]_vars

(***************************************************************************)
(* lib/gallery: addToGallery                                               *)
(***************************************************************************)
\* number of addToGallery calls in progress at once
MaxCalls == 2

\* await galleryRedis.ltrim('gallery:items', 0, 999)
LTrimStop == 999

\* Redis LPUSH key value: the value becomes the head
LPush(list, id) == <<id>> \o list

\* Redis LTRIM key start stop: keeps the elements at indexes start..stop
LTrim_keepsAll(list, start, stop) == list
LTrim(list, start, stop) == SubSeq(list, start + 1, Min(stop + 1, Len(list)))

\* the list after n earlier addToGallery calls that ran one after the other with
\* ids 1..n: newest first, cut to LTrimStop + 1 entries
ListAfter(n) == [k \in 1..Min(n, LTrimStop + 1) |-> n - k + 1]

\* how many calls have completed before the ones explored
PriorAdds == {0, 1, 998, 999, 1000, 1003}

notGalVars == <<acqVars, pipeVars, imgVars, apiVars>>

\* a call: the await it is at, item.id, and (history) how many other calls
\* pushed between its own lpush and its ltrim
NewAdd(id) == [pc |-> "start", id |-> id, after |-> 0]

InitGal ==
  /\ AcqIdle
  /\ PipeIdle
  /\ ImgIdle
  /\ ApiIdle
  /\ galleryRedis \in BOOLEAN
  /\ \E n \in PriorAdds :
       /\ (~galleryRedis => n = 0)
       /\ galleryItems = ListAfter(n)
       /\ galleryDocs = 1..n
       /\ addPc = [p \in 1..MaxCalls |-> NewAdd(n + p)]

\* if (!galleryRedis) return
AddNoRedis(p) ==
  /\ addPc[p].pc = "start"
  /\ ~galleryRedis
  /\ addPc' = [addPc EXCEPT ![p].pc = "done"]
  /\ UNCHANGED <<galleryRedis, galleryItems, galleryDocs>>
  /\ UNCHANGED notGalVars

\* await galleryRedis.set(`gallery:item:${item.id}`, JSON.stringify(item))
AddSet(p) ==
  /\ addPc[p].pc = "start"
  /\ galleryRedis
  /\ galleryDocs' = galleryDocs \cup {addPc[p].id}
  /\ addPc' = [addPc EXCEPT ![p].pc = "lpush"]
  /\ UNCHANGED <<galleryRedis, galleryItems>>
  /\ UNCHANGED notGalVars

\* await galleryRedis.lpush('gallery:items', item.id)
AddLPush(p) ==
  /\ addPc[p].pc = "lpush"
  /\ galleryItems' = LPush(galleryItems, addPc[p].id)
  /\ addPc' = [q \in DOMAIN addPc |->
                 IF q = p THEN [addPc[q] EXCEPT !.pc = "ltrim"]
                 ELSE IF addPc[q].pc = "ltrim"
                      THEN [addPc[q] EXCEPT !.after = addPc[q].after + 1]
                      ELSE addPc[q]]
  /\ UNCHANGED <<galleryRedis, galleryDocs>>
  /\ UNCHANGED notGalVars

\* await galleryRedis.ltrim('gallery:items', 0, 999): the call returns
AddLTrim(p) ==
  /\ addPc[p].pc = "ltrim"
  /\ galleryItems' = LTrim(galleryItems, 0, LTrimStop)
  /\ addPc' = [addPc EXCEPT ![p].pc = "done"]
  /\ UNCHANGED <<galleryRedis, galleryDocs>>
  /\ UNCHANGED notGalVars

\* one of the three Redis requests rejects: addToGallery rejects there
AddThrows(p) ==
  /\ addPc[p].pc \in {"start", "lpush", "ltrim"}
  /\ galleryRedis
  /\ addPc' = [addPc EXCEPT ![p].pc = "threw"]
  /\ UNCHANGED <<galleryRedis, galleryItems, galleryDocs>>
  /\ UNCHANGED notGalVars

NextGal ==
  \/ \E p \in DOMAIN addPc : AddNoRedis(p)
  \/ \E p \in DOMAIN addPc : AddSet(p)
  \/ \E p \in DOMAIN addPc : AddLPush(p)
  \/ \E p \in DOMAIN addPc : AddLTrim(p)
  \/ \E p \in DOMAIN addPc : AddThrows(p)

SpecGal == InitGal /\ [][NextGal]_vars

(***************************************************************************)
(* pages/api/download: the blob download proxy                             *)
(***************************************************************************)
\* A hostname is kept as its sequence of dot-separated labels, so
\* "x.blob.vercel-storage.com" is <<"x", "blob", "vercel-storage", "com">>.
\* String.prototype.toLowerCase on one label
LowerLabel(l) ==
  CASE l = "X" -> "x"
    [] l = "BLOB" -> "blob"
    [] l = "Vercel-Storage" -> "vercel-storage"
    [] l = "COM" -> "com"
    [] OTHER -> l
toLowerCase(host) == [k \in DOMAIN host |-> LowerLabel(host[k])]

\* host.endsWith('.blob.vercel-storage.com'): the last three labels are the
\* suffix and a dot precedes them, i.e. there is a fourth label in front
endsWithBlobSuffix_noLeadingDot(host) ==
  /\ Len(host) >= 3
  /\ SubSeq(host, Len(host) - 2, Len(host)) = <<"blob", "vercel-storage", "com">>
endsWithBlobSuffix(host) ==
  /\ Len(host) >= 4
  /\ SubSeq(host, Len(host) - 2, Len(host)) = <<"blob", "vercel-storage", "com">>

\* function isAllowed(url: URL)
isAllowed(url) == endsWithBlobSuffix(toLowerCase(url.hostname))

\* new URL(urlParam): throws unless the string has a scheme; the parser
\* lower-cases the host of an http, https or ftp URL
ParseURL(param) ==
  IF param.kind = "url"
  THEN [ok |-> TRUE, protocol |-> param.scheme, hostname |-> toLowerCase(param.host)]
  ELSE [ok |-> FALSE]

DlHosts ==
  { <<"x", "blob", "vercel-storage", "com">>,
    <<"X", "BLOB", "Vercel-Storage", "COM">>,
    <<"a", "b", "blob", "vercel-storage", "com">>,
    <<"", "blob", "vercel-storage", "com">>,
    <<"blob", "vercel-storage", "com">>,
    <<"xblob", "vercel-storage", "com">>,
    <<"x", "blob", "vercel-storage", "com", "evil", "com">>,
    <<"vercel-storage", "com">>,
    <<"evil", "com">>,
    <<"localhost">> }
\* req.query.url: missing, '', a string without a scheme, or scheme://host/..
DlUrlParams ==
  {[kind |-> "absent"], [kind |-> "empty"]}
    \cup {[kind |-> "noscheme", host |-> h] : h \in DlHosts}
    \cup {[kind |-> "url", scheme |-> sc, host |-> h] :
            sc \in {"https", "http", "ftp"}, h \in DlHosts}

InitDl ==
  /\ AcqIdle
  /\ PipeIdle
  /\ ImgIdle
  /\ GalIdle
  /\ ModIdle
  /\ NormIdle
  /\ GenIdle
  /\ dlReq \in [method : {"GET", "POST", "HEAD", "OPTIONS"}, url : DlUrlParams]
  /\ dlRun = [pc |-> "start", fetches |-> <<>>, status |-> 0]

notDlVars == <<acqVars, pipeVars, imgVars, galVars, modVars, normVars, genVars>>

DlAnswer(status) ==
  /\ dlRun' = [dlRun EXCEPT !.pc = "done", !.status = status]
  /\ UNCHANGED dlReq
  /\ UNCHANGED notDlVars

\* if (req.method !== 'GET') 405
DlMethodNotAllowed ==
  /\ dlRun.pc = "start"
  /\ dlReq.method # "GET"
  /\ DlAnswer(405)

\* const urlParam = (req.query.url as string) || ''; if (!urlParam) 400
DlMissingUrl ==
  /\ dlRun.pc = "start"
  /\ dlReq.method = "GET"
  /\ dlReq.url.kind \in {"absent", "empty"}
  /\ DlAnswer(400)

\* new URL(urlParam) throws: 400 Invalid url
DlInvalidUrl ==
  /\ dlRun.pc = "start"
  /\ dlReq.method = "GET"
  /\ dlReq.url.kind \notin {"absent", "empty"}
  /\ ~ParseURL(dlReq.url).ok
  /\ DlAnswer(400)

\* if (!isAllowed(remote)) 400 Host not allowed
DlHostNotAllowed ==
  /\ dlRun.pc = "start"
  /\ dlReq.method = "GET"
  /\ dlReq.url.kind \notin {"absent", "empty"}
  /\ ParseURL(dlReq.url).ok
  /\ ~isAllowed(ParseURL(dlReq.url))
  /\ DlAnswer(400)

\* const upstream = await fetch(remote.toString(), ..): the request is issued
DlFetch ==
  /\ dlRun.pc = "start"
  /\ dlReq.method = "GET"
  /\ dlReq.url.kind \notin {"absent", "empty"}
  /\ ParseURL(dlReq.url).ok
  /\ isAllowed(ParseURL(dlReq.url))
  /\ dlRun' = [dlRun EXCEPT !.pc = "fetching",
                            !.fetches = Append(@, ParseURL(dlReq.url))]
  /\ UNCHANGED dlReq
  /\ UNCHANGED notDlVars

\* fetch rejects (network failure, a scheme fetch does not speak): the handler
\* has no catch and the framework answers 500
DlFetchRejects ==
  /\ dlRun.pc = "fetching"
  /\ DlAnswer(500)

\* if (!upstream.ok) res.status(upstream.status)
DlUpstreamNotOk ==
  /\ dlRun.pc = "fetching"
  /\ \E st \in {403, 404, 500} : DlAnswer(st)

\* res.status(200).send(buf)
DlUpstreamOk ==
  /\ dlRun.pc = "fetching"
  /\ DlAnswer(200)

NextDl ==
  \/ DlMethodNotAllowed
  \/ DlMissingUrl
  \/ DlInvalidUrl
  \/ DlHostNotAllowed
  \/ DlFetch
  \/ DlFetchRejects
  \/ DlUpstreamNotOk
  \/ DlUpstreamOk

SpecDl == InitDl /\ [][NextDl]_vars

(***************************************************************************)
(* pages/api/gallery/moderate and lib/gallery setStatus                    *)
(***************************************************************************)
\* A JavaScript value that is a string or undefined is kept as a string, with
\* "undefined" standing for the value undefined (no request sends that text).
Truthy(v) == v # "undefined" /\ v # ""

\* header.replace(/^Bearer\s+/i, ''): a leading "Bearer" in any case followed
\* by at least one blank is dropped, any other text is left as it is
StripBearer(header) ==
  CASE header = "Bearer s3cret" -> "s3cret"
    [] header = "bearer  s3cret" -> "s3cret"
    [] header = "Bearer wrong" -> "wrong"
    [] header = "Bearer " -> ""
    [] OTHER -> header
\* req.headers.authorization: "undefined" when the header is not sent
AuthHeaders ==
  {"undefined", "", "Bearer s3cret", "bearer  s3cret", "s3cret", "Bearer wrong",
   "Bearer ", "Bearer"}
\* req.query.token
QueryTokens == {"undefined", "", "s3cret", "wrong"}
\* process.env.ADMIN_API_TOKEN: not set, set to the empty string, set
AdminTokens == {"undefined", "", "s3cret"}

\* req.headers.authorization?.replace(/^Bearer\s+/i, '')
BearerOf(req) ==
  IF req.authorization = "undefined" THEN "undefined" ELSE StripBearer(req.authorization)
\* moderate: const token = <bearer> || req.query.token
ModTokenOf(req) == IF Truthy(BearerOf(req)) THEN BearerOf(req) ELSE req.token
\* normalize: const token = <bearer> || String(req.query.token || '')
NormTokenOf(req) ==
  IF Truthy(BearerOf(req)) THEN BearerOf(req)
  ELSE IF Truthy(req.token) THEN req.token ELSE ""


notModVars == <<acqVars, pipeVars, imgVars, dlVars, normVars, genVars>>

\* modRun.authorized records that the handler went past its token check and
\* modRun.before is the status the document had when the request arrived; the
\* id a body names is 0 for none (or ''), 1 has a document, 2 has none
InitMod ==
  /\ AcqIdle
  /\ PipeIdle
  /\ ImgIdle
  /\ DlIdle
  /\ NormIdle
  /\ GenIdle
  /\ galleryRedis \in BOOLEAN
  /\ galleryItems = <<1>>
  /\ galleryDocs = {1}
  /\ addPc = <<>>
  /\ adminToken \in AdminTokens
  /\ docStatus \in [{1} -> {"approved", "pending", "hidden"}]
  /\ modReq \in [method : {"POST", "GET"}, authorization : AuthHeaders,
                 token : QueryTokens, id : {0, 1, 2},
                 action : {"undefined", "approve", "hide"}]
  /\ modRun = [pc |-> "start", status |-> 0, authorized |-> FALSE, before |-> docStatus]

ModAnswer(status) ==
  /\ modRun' = [modRun EXCEPT !.pc = "done", !.status = status]
  /\ UNCHANGED <<adminToken, modReq>>
  /\ UNCHANGED galVars
  /\ UNCHANGED notModVars

\* if (req.method !== 'POST') 405
ModMethodNotAllowed ==
  /\ modRun.pc = "start"
  /\ modReq.method # "POST"
  /\ ModAnswer(405)
  /\ UNCHANGED docStatus

\* if (token !== process.env.ADMIN_API_TOKEN) 401
ModUnauthorized ==
  /\ modRun.pc = "start"
  /\ modReq.method = "POST"
  /\ ModTokenOf(modReq) # adminToken
  /\ ModAnswer(401)
  /\ UNCHANGED docStatus

\* the token check is passed
ModAuthorized ==
  /\ modRun.pc = "start"
  /\ modReq.method = "POST"
  /\ ModTokenOf(modReq) = adminToken
  /\ modRun' = [modRun EXCEPT !.pc = "body", !.authorized = TRUE]
  /\ UNCHANGED <<adminToken, modReq, docStatus>>
  /\ UNCHANGED galVars
  /\ UNCHANGED notModVars

\* if (!id || !action) 400
ModBadBody ==
  /\ modRun.pc = "body"
  /\ (modReq.id = 0 \/ modReq.action = "undefined")
  /\ ModAnswer(400)
  /\ UNCHANGED docStatus

\* setStatus: if (!galleryRedis) return; then the handler answers 200
ModNoRedis ==
  /\ modRun.pc = "body"
  /\ modReq.id # 0 /\ modReq.action # "undefined"
  /\ ~galleryRedis
  /\ ModAnswer(200)
  /\ UNCHANGED docStatus

\* setStatus: const it = await getDocById(id)
ModGetDoc ==
  /\ modRun.pc = "body"
  /\ modReq.id # 0 /\ modReq.action # "undefined"
  /\ galleryRedis
  /\ modRun' = [modRun EXCEPT !.pc = "got"]
  /\ UNCHANGED <<adminToken, modReq, docStatus>>
  /\ UNCHANGED galVars
  /\ UNCHANGED notModVars

\* setStatus: if (!it) return; then the handler answers 200
ModDocMissing ==
  /\ modRun.pc = "got"
  /\ modReq.id \notin galleryDocs
  /\ ModAnswer(200)
  /\ UNCHANGED docStatus

\* setStatus: it.status = status; await galleryRedis.set(..); then 200
\* with status = action === 'approve' ? 'approved' : 'hidden'
ModSetDoc ==
  /\ modRun.pc = "got"
  /\ modReq.id \in galleryDocs
  /\ docStatus' = [docStatus EXCEPT ![modReq.id] =
                     IF modReq.action = "approve" THEN "approved" ELSE "hidden"]
  /\ ModAnswer(200)

\* a Redis request of setStatus rejects: no catch, the framework answers 500
ModRedisThrows ==
  /\ modRun.pc \in {"body", "got"}
  /\ modReq.id # 0 /\ modReq.action # "undefined"
  /\ galleryRedis
  /\ ModAnswer(500)
  /\ UNCHANGED docStatus

NextMod ==
  \/ ModMethodNotAllowed
  \/ ModUnauthorized
  \/ ModAuthorized
  \/ ModBadBody
  \/ ModNoRedis
  \/ ModGetDoc
  \/ ModDocMissing
  \/ ModSetDoc
  \/ ModRedisThrows

SpecMod == InitMod /\ [][NextMod]_vars

(***************************************************************************)
(* The gallery normalize endpoint, next to one addToGallery call           *)
(***************************************************************************)
\* longest gallery:items list the endpoint is run on
MaxList == 3

\* An entry of gallery:items is kept as an integer: k > 0 is the id string of
\* item k, -k (k > 0) is a legacy entry holding the whole JSON document of
\* item k, 0 is a blank string and BadJson a string that starts with '{' and
\* does not parse.
BadJson == -99
NormEntries == {0, 1, 2, -3, BadJson}

\* asItem(e) is not null
IsLegacyItem(e) == e < 0 /\ e # BadJson
\* the loop over raw: else if (s) ids.push(s)
PlainIds(raw) == SelectSeq(raw, LAMBDA e : e > 0)
\* the loop over raw: const it = asItem(..); if (it) legacyItems.push(it)
LegacyItems(raw) ==
  LET sel == SelectSeq(raw, IsLegacyItem)
  IN  [k \in DOMAIN sel |-> -sel[k]]

\* Redis LRANGE key start stop
LRange(list, start, stop) == SubSeq(list, start + 1, Min(stop + 1, Len(list)))


notNormVars == <<acqVars, pipeVars, imgVars, dlVars, modVars, genVars>>

InitNorm ==
  /\ AcqIdle
  /\ PipeIdle
  /\ ImgIdle
  /\ DlIdle
  /\ GenIdle
  /\ docStatus = <<>>
  /\ modReq = [method |-> "none"]
  /\ modRun = [pc |-> "idle"]
  /\ adminToken \in AdminTokens
  /\ galleryRedis \in BOOLEAN
  /\ galleryItems \in SeqsUpTo(NormEntries, MaxList)
  /\ galleryDocs = {e \in NormEntries : e > 0}
  /\ addPc = <<NewAdd(4)>>
  /\ normReq \in [method : {"POST", "GET"},
                  authorization : {"undefined", "Bearer s3cret", "Bearer wrong"},
                  token : {"undefined", "s3cret"}]
  /\ normRun = [pc |-> "start", status |-> 0, raw |-> <<>>, ids |-> <<>>,
                legacyItems |-> <<>>, written |-> 0, pushed |-> 0]

NormAnswer(status) ==
  /\ normRun' = [normRun EXCEPT !.pc = "done", !.status = status]
  /\ UNCHANGED normReq
  /\ UNCHANGED notNormVars

\* if (req.method !== 'POST') 405
NormMethodNotAllowed ==
  /\ normRun.pc = "start"
  /\ normReq.method # "POST"
  /\ NormAnswer(405)
  /\ UNCHANGED galVars

\* if (token !== process.env.ADMIN_API_TOKEN) 401
NormUnauthorized ==
  /\ normRun.pc = "start"
  /\ normReq.method = "POST"
  /\ NormTokenOf(normReq) # adminToken
  /\ NormAnswer(401)
  /\ UNCHANGED galVars

\* if (!redis) 500 no_redis_env
NormNoRedis ==
  /\ normRun.pc = "start"
  /\ normReq.method = "POST"
  /\ NormTokenOf(normReq) = adminToken
  /\ ~galleryRedis
  /\ NormAnswer(500)
  /\ UNCHANGED galVars

\* const raw = await redis.lrange('gallery:items', 0, 999), then the loop that
\* sorts the entries into ids and legacyItems
NormLRange ==
  /\ normRun.pc = "start"
  /\ normReq.method = "POST"
  /\ NormTokenOf(normReq) = adminToken
  /\ galleryRedis
  /\ LET raw == LRange(galleryItems, 0, LTrimStop)
     IN  normRun' = [normRun EXCEPT !.pc = "set", !.raw = raw, !.ids = PlainIds(raw),
                                    !.legacyItems = LegacyItems(raw)]
  /\ UNCHANGED normReq
  /\ UNCHANGED galVars
  /\ UNCHANGED notNormVars

\* for (const it of legacyItems): await redis.set(..); ids.push(it.id); written++
NormSet ==
  /\ normRun.pc = "set"
  /\ normRun.written < Len(normRun.legacyItems)
  /\ LET it == normRun.legacyItems[normRun.written + 1]
     IN  /\ galleryDocs' = galleryDocs \cup {it}
         /\ normRun' = [normRun EXCEPT !.ids = Append(@, it), !.written = @ + 1]
  /\ UNCHANGED <<galleryRedis, galleryItems, addPc>>
  /\ UNCHANGED normReq
  /\ UNCHANGED notNormVars

\* if (ids.length) is false: 200
NormNothingToWrite ==
  /\ normRun.pc = "set"
  /\ normRun.written = Len(normRun.legacyItems)
  /\ normRun.ids = <<>>
  /\ NormAnswer(200)
  /\ UNCHANGED galVars

\* await redis.del('gallery:items')
NormDel ==
  /\ normRun.pc = "set"
  /\ normRun.written = Len(normRun.legacyItems)
  /\ normRun.ids # <<>>
  /\ galleryItems' = <<>>
  /\ normRun' = [normRun EXCEPT !.pc = "lpush"]
  /\ UNCHANGED <<galleryRedis, galleryDocs, addPc>>
  /\ UNCHANGED normReq
  /\ UNCHANGED notNormVars

\* for (const id of ids) await redis.lpush('gallery:items', id)
NormLPush ==
  /\ normRun.pc = "lpush"
  /\ normRun.pushed < Len(normRun.ids)
  /\ galleryItems' = LPush(galleryItems, normRun.ids[normRun.pushed + 1])
  /\ normRun' = [normRun EXCEPT !.pushed = @ + 1]
  /\ UNCHANGED <<galleryRedis, galleryDocs, addPc>>
  /\ UNCHANGED normReq
  /\ UNCHANGED notNormVars

\* await redis.ltrim('gallery:items', 0, 999); 200
NormLTrim ==
  /\ normRun.pc = "lpush"
  /\ normRun.pushed = Len(normRun.ids)
  /\ galleryItems' = LTrim(galleryItems, 0, LTrimStop)
  /\ NormAnswer(200)
  /\ UNCHANGED <<galleryRedis, galleryDocs, addPc>>

\* a Redis request rejects: no catch, the framework answers 500
NormRedisThrows ==
  /\ \/ normRun.pc = "start" /\ normReq.method = "POST"
          /\ NormTokenOf(normReq) = adminToken /\ galleryRedis
     \/ normRun.pc \in {"set", "lpush"}
  /\ ~(normRun.pc = "set" /\ normRun.written = Len(normRun.legacyItems)
         /\ normRun.ids = <<>>)
  /\ NormAnswer(500)
  /\ UNCHANGED galVars

NextNorm ==
  \/ NormMethodNotAllowed
  \/ NormUnauthorized
  \/ NormNoRedis
  \/ NormLRange
  \/ NormSet
  \/ NormNothingToWrite
  \/ NormDel
  \/ NormLPush
  \/ NormLTrim
  \/ NormRedisThrows
  \/ \E p \in DOMAIN addPc : AddNoRedis(p)
  \/ \E p \in DOMAIN addPc : AddSet(p)
  \/ \E p \in DOMAIN addPc : AddLPush(p)
  \/ \E p \in DOMAIN addPc : AddLTrim(p)
  \/ \E p \in DOMAIN addPc : AddThrows(p)

SpecNorm == InitNorm /\ [][NextNorm]_vars

(***************************************************************************)
(* The sharp revisions of the generate endpoint: the handler of            *)
(* pages/api/dtf/generate.ts and POST of app/api/dtf/generate/route.ts     *)
(***************************************************************************)
\* A JavaScript number is kept as [k, v]: k = "fin" with v the value (inches
\* in thousandths, or pixels), or k = "nan", "inf", "ninf" with v = 0.
Fin(v) == [k |-> "fin", v |-> v]
NaN == [k |-> "nan", v |-> 0]
Infinity == [k |-> "inf", v |-> 0]
NegInfinity == [k |-> "ninf", v |-> 0]

\* !n for a number: true for 0 and NaN
Falsy(n) == n.k = "nan" \/ (n.k = "fin" /\ n.v = 0)
\* Number.isFinite(n) && n > 0
PositiveFinite(n) == n.k = "fin" /\ n.v > 0
\* px(n) = Math.round(n * dpi) on a number in inches
PxOf(n) == IF n.k = "fin" THEN Fin(px(n.v)) ELSE n
\* n + 2 * bleedIn
PlusBleed(n) == IF n.k = "fin" THEN Fin(n.v + 2 * BleedIn) ELSE n

\* Number(body.widthIn): what a JSON body can make of it, in thousandths of an
\* inch: a missing or non-numeric field (NaN), 0, -1, 0.001, 0.1, 1, 2.5, 3.333
\* and the strings "Infinity", "-Infinity"
GenDims ==
  {NaN, Infinity, NegInfinity} \cup {Fin(v) : v \in {-1000, 0, 1, 100, 1000, 2500, 3333}}

\* const trimW = px(widthIn, dpi) .. const finalH = px(heightIn + 2 * bleedIn, dpi)
Geometry(widthIn, heightIn) ==
  [trimW |-> PxOf(widthIn), trimH |-> PxOf(heightIn),
   finalW |-> PxOf(PlusBleed(widthIn)), finalH |-> PxOf(PlusBleed(heightIn))]

\* left: Math.round((finalW - trimW) / 2), top: Math.round((finalH - trimH) / 2)
CompositeLeft(g) == MathRound(g.finalW.v - g.trimW.v, 2)
CompositeTop(g) == MathRound(g.finalH.v - g.trimH.v, 2)

notGenVars == <<acqVars, pipeVars, imgVars, galVars, dlVars, modVars, normVars>>

\* genRun: calls counts the requests made to the image generator; left and top
\* are where the trim-sized image was composited; bleedPx and safeInset are
\* the locals of the proof step
InitGen ==
  /\ AcqIdle
  /\ PipeIdle
  /\ ImgIdle
  /\ GalIdle
  /\ DlIdle
  /\ ModIdle
  /\ NormIdle
  /\ \/ genReq \in [handler : {"pages"}, method : {"POST", "GET", "OPTIONS"}, key : BOOLEAN,
                    prompt : BOOLEAN, widthIn : GenDims, heightIn : GenDims]
     \/ genReq \in [handler : {"route"}, method : {"POST"}, key : {TRUE},
                    prompt : BOOLEAN, widthIn : GenDims, heightIn : GenDims]
  /\ genRun = [pc |-> "start", status |-> 0, calls |-> 0, g |-> Geometry(NaN, NaN),
               left |-> 0, top |-> 0, bleedPx |-> 0, safeInset |-> 0]

GenAnswer(status) ==
  /\ genRun' = [genRun EXCEPT !.pc = "done", !.status = status]
  /\ UNCHANGED genReq
  /\ UNCHANGED notGenVars

\* pages: if (req.method === 'OPTIONS') 204
PagesOptions ==
  /\ genRun.pc = "start" /\ genReq.handler = "pages"
  /\ genReq.method = "OPTIONS"
  /\ GenAnswer(204)

\* pages: if (req.method !== 'POST') 405
PagesMethodNotAllowed ==
  /\ genRun.pc = "start" /\ genReq.handler = "pages"
  /\ genReq.method \notin {"OPTIONS", "POST"}
  /\ GenAnswer(405)

\* pages: if (!process.env.OPENAI_API_KEY) 500
PagesNoKey ==
  /\ genRun.pc = "start" /\ genReq.handler = "pages"
  /\ genReq.method = "POST"
  /\ ~genReq.key
  /\ GenAnswer(500)

\* if (!cleanPrompt || !wIn || !hIn) 400
Required(req) == ~req.prompt \/ Falsy(req.widthIn) \/ Falsy(req.heightIn)

PagesRequired ==
  /\ genRun.pc = "start" /\ genReq.handler = "pages"
  /\ genReq.method = "POST"
  /\ genReq.key
  /\ Required(genReq)
  /\ GenAnswer(400)

\* pages: generateDTF(cleanPrompt, wIn, hIn) computes the geometry and awaits
\* step('openai_generate', ..): the generator is called
PagesGenerate ==
  /\ genRun.pc = "start" /\ genReq.handler = "pages"
  /\ genReq.method = "POST"
  /\ genReq.key
  /\ ~Required(genReq)
  /\ genRun' = [genRun EXCEPT !.pc = "generating", !.calls = @ + 1,
                              !.g = Geometry(genReq.widthIn, genReq.heightIn)]
  /\ UNCHANGED genReq
  /\ UNCHANGED notGenVars

\* route: if (!prompt || !widthIn || !heightIn) 400
RouteRequired ==
  /\ genRun.pc = "start" /\ genReq.handler = "route"
  /\ Required(genReq)
  /\ GenAnswer(400)

\* route: the geometry, then await openai.images.generate(..)
RouteGenerate ==
  /\ genRun.pc = "start" /\ genReq.handler = "route"
  /\ ~Required(genReq)
  /\ genRun' = [genRun EXCEPT !.pc = "generating", !.calls = @ + 1,
                              !.g = Geometry(genReq.widthIn, genReq.heightIn)]
  /\ UNCHANGED genReq
  /\ UNCHANGED notGenVars

\* the generator call rejects: caught, 500
GenGeneratorFails ==
  /\ genRun.pc = "generating"
  /\ GenAnswer(500)

\* route: the answer has no data[0], or neither b64_json nor url: 502
RouteNoData ==
  /\ genRun.pc = "generating" /\ genReq.handler = "route"
  /\ GenAnswer(502)

\* pages: throw new Error('invalid_dimensions..') in step('sharp_resize');
\* route: sharp(..).resize({ width: trimW, height: trimH }) rejects a side
\* that is not a positive integer; both are caught, 500
GenInvalidDimensions ==
  /\ genRun.pc = "generating"
  /\ ~(PositiveFinite(genRun.g.trimW) /\ PositiveFinite(genRun.g.trimH))
  /\ GenAnswer(500)

\* the base image is resized to trimW x trimH and composited on the
\* transparent finalW x finalH canvas
GenCompose ==
  /\ genRun.pc = "generating"
  /\ PositiveFinite(genRun.g.trimW) /\ PositiveFinite(genRun.g.trimH)
  /\ genRun' = [genRun EXCEPT !.pc = "proof", !.left = CompositeLeft(genRun.g),
                              !.top = CompositeTop(genRun.g)]
  /\ UNCHANGED genReq
  /\ UNCHANGED notGenVars

\* the proof overlay: a line of the safe box has no positive size, sharp
\* rejects creating it, 500
GenProofThrows ==
  /\ genRun.pc = "proof"
  /\ LineThrows(ProofRects(genRun.g.finalW.v, genRun.g.finalH.v))
  /\ GenAnswer(500)

\* const bleedPx = px(0.125, dpi); const safeInset = bleedPx + px(0.125, dpi);
\* the eight lines are composited
GenProof ==
  /\ genRun.pc = "proof"
  /\ ~LineThrows(ProofRects(genRun.g.finalW.v, genRun.g.finalH.v))
  /\ genRun' = [genRun EXCEPT !.pc = "put", !.bleedPx = px(BleedIn),
                              !.safeInset = px(BleedIn) + px(125)]
  /\ UNCHANGED genReq
  /\ UNCHANGED notGenVars

\* both blobs are stored and the two URLs answered
GenPut ==
  /\ genRun.pc = "put"
  /\ GenAnswer(200)

\* a put rejects: caught, 500
GenPutFails ==
  /\ genRun.pc = "put"
  /\ GenAnswer(500)

NextGen ==
  \/ PagesOptions
  \/ PagesMethodNotAllowed
  \/ PagesNoKey
  \/ PagesRequired
  \/ PagesGenerate
  \/ RouteRequired
  \/ RouteGenerate
  \/ GenGeneratorFails
  \/ RouteNoData
  \/ GenInvalidDimensions
  \/ GenCompose
  \/ GenProofThrows
  \/ GenProof
  \/ GenPut
  \/ GenPutFails

SpecGen == InitGen /\ [][NextGen]_vars

(***************************************************************************)
(* Claims about generateBasePngs (checked under SpecAcq / FairSpecAcq)     *)
(***************************************************************************)
\* the loop was left by the attempt cap with a shortfall and a non-empty accum
CapShortfall == AcqLoopLeft /\ attempts = 6 /\ remaining > 0 /\ accum # <<>>

C5_OnePerCall ==
  (acqPc = "returned" /\ count <= 6 /\ \A a \in 1..attempts : Yield(a) = 1) =>
    /\ attempts = count
    /\ Len(result) = count
    /\ result = accum
    /\ remaining = 0

C5_Witness ==
  acqPc = "returned" /\ count = 3 /\ attempts = 3 /\ result = <<1, 2, 3>>

\* C6: whatever the provider answers, the acquisition terminates (returns or
\* throws) and the attempts counter never exceeds 6.
C6_TerminatesWithinCap == [](attempts <= 6) /\ <>AcqTerminal

\* a run that used all 6 attempts and got more items than asked on the last
C6_Witness ==
  acqPc = "returned" /\ attempts = 6 /\ Len(accum) > count /\ Yield(6) >= 2


(***************************************************************************)
(* Claims about processOne and generateDTF (checked under Spec)            *)
(***************************************************************************)
Entries(i) == {cand[i].stageLog[j] : j \in 1..Len(cand[i].stageLog)}
Logged(i, stage, outcome) == <<stage, outcome>> \in Entries(i)
Ran(i, stage) == \E o \in {"Ok", "SkippedOptional", "Failed"} : Logged(i, stage, o)
\* the candidate was aborted by a failure of pad_margin or resize_trim
MandatoryFailed(i) ==
  Failed(i) /\ (Logged(i, "pad_margin", "Failed") \/ Logged(i, "resize_trim", "Failed"))
AllSettled == cand # <<>> /\ \A i \in Cands : Settled(i)
\* the raster a candidate has before any optional stage
PreStage(i) == ensurePng(cand[i].base).png

StageRank(stage) ==
  CASE stage = "normalize" -> 1
    [] stage = "removebg" -> 2
    [] stage = "vectorize" -> 3
    [] stage = "pad_margin" -> 4
    [] stage = "resize_trim" -> 5
    [] stage = "finalize" -> 6
    [] OTHER -> 7

\* C1 (as stated): of 3 base buffers exactly one fails a mandatory stage and the
\* other two finish; then the request succeeds with exactly 2 candidate results.
C1_SiblingsReturned ==
  ( /\ Len(cand) = 3
    /\ AllSettled
    /\ Cardinality({i \in Cands : MandatoryFailed(i)}) = 1
    /\ Cardinality({i \in Cands : Done(i)}) = 2 )
  => (resp = "ok" /\ Len(options) = 2)

\* C7: a failed optional stage does not abort the candidate; it is logged as
\* SkippedOptional, the later stages get the raster from before the stage, and
\* a finished candidate's final raster is the one the run without that stage
\* gives.
C7_OptionalFailureDegrades ==
  \A i \in Cands :
    LET c == cand[i] IN
    /\ Logged(i, "removebg", "SkippedOptional") =>
         /\ c.normalized = PreStage(i)
         /\ c.pc # "removebg"
         /\ Failed(i) => (Ran(i, "pad_margin") \/ Ran(i, "resize_trim") \/ Ran(i, "finalize"))
         /\ Ran(i, "vectorize") => c.vecIn = PreStage(i)
         /\ Ran(i, "pad_margin") => c.padIn = PreStage(i)
         /\ Done(i) =>
              c.resized = resizeContainWithPngjs(padTransparentPng(PreStage(i)),
                                                 cfg.trimW, cfg.trimH)
    /\ Logged(i, "vectorize", "SkippedOptional") =>
         /\ c.normalized = c.vecIn
         /\ ~c.svgUrl /\ ~c.vectorPngUrl
         /\ Failed(i) => (Ran(i, "pad_margin") \/ Ran(i, "resize_trim") \/ Ran(i, "finalize"))
         /\ Ran(i, "pad_margin") => c.padIn = c.vecIn
         /\ Done(i) =>
              c.resized = resizeContainWithPngjs(padTransparentPng(c.vecIn),
                                                 cfg.trimW, cfg.trimH)

\* background removal was requested and failed, vectorization failed too, and
\* the request still answered 200 with this candidate
C7_Witness ==
  /\ resp = "ok"
  /\ \E i \in Cands :
       /\ Done(i)
       /\ Logged(i, "removebg", "SkippedOptional")
       /\ Logged(i, "vectorize", "SkippedOptional")
       /\ cand[i].resized.ops = <<"pad", "contain">>

\* C8: a candidate's stages run in the order normalize, removebg (when
\* enabled), vectorize (when enabled), pad_margin, resize_trim, finalize, each
\* after the previous one has finished, none after a failed one; vectorize and
\* pad_margin are given the output of removebg when that stage succeeded.
C8_StageOrder ==
  \A i \in Cands :
    LET c == cand[i]
        L == c.stageLog
    IN
    /\ \A j \in 1..(Len(L) - 1) :
         /\ StageRank(L[j][1]) < StageRank(L[j + 1][1])
         /\ L[j][2] # "Failed"
    /\ \A j \in 1..Len(L) : StageRank(L[j][1]) < StageRank(c.pc)
    /\ c.pc # "failed" =>
         \A st \in {"normalize", "pad_margin", "resize_trim", "finalize"} :
            StageRank(st) < StageRank(c.pc) => Logged(i, st, "Ok")
    /\ Ran(i, "removebg") <=> (doRemoveBg(cfg) /\ StageRank("removebg") < StageRank(c.pc))
    /\ Ran(i, "vectorize") =>
         (doVectorize(cfg) /\ (doRemoveBg(cfg) => Ran(i, "removebg")))
    /\ Ran(i, "pad_margin") =>
         /\ Logged(i, "normalize", "Ok")
         /\ doVectorize(cfg) => Ran(i, "vectorize")
    /\ Logged(i, "removebg", "Ok") =>
         /\ Ran(i, "vectorize") => c.vecIn = removeBackground(PreStage(i))
         /\ Ran(i, "pad_margin") => c.padIn = removeBackground(PreStage(i))

\* all six stages ran for a candidate, background removal succeeding
C8_Witness ==
  \E i \in Cands :
    /\ Done(i)
    /\ cand[i].stageLog = << <<"normalize", "Ok">>, <<"removebg", "Ok">>,
                             <<"vectorize", "Ok">>, <<"pad_margin", "Ok">>,
                             <<"resize_trim", "Ok">>, <<"finalize", "Ok">> >>
    /\ cand[i].padIn.ops = <<"removebg">>

\* C9 (as stated): once the candidates are settled the orchestrator has either
\* returned a non-empty list or failed, and it failed exactly when every
\* candidate failed.
C9_FailsOnlyWhenAllFailed ==
  AllSettled =>
    /\ resp \in {"ok", "error"}
    /\ resp = "ok" => options # <<>>
    /\ resp = "error" <=> \A i \in Cands : Failed(i)

\* C10 (as stated): a candidate that fails pad_margin or resize_trim has no
\* stored artifact (print PNG, SVG, vector PNG).
C10_NoPartialCommit ==
  \A i \in Cands :
    MandatoryFailed(i) => ~\E b \in blobs : b[1] = i


\* C11: candidate pipelines run concurrently and are never cancelled by a
\* sibling: a step of one candidate (its failure included) changes no other
\* candidate, and once some candidate has failed every candidate still runs
\* to its own completion or its own failure, under every interleaving.
C11_NoSiblingCancellation ==
  /\ [][\A i \in Cands : \A j \in Cands :
          (i # j /\ cand'[i] # cand[i]) => cand'[j] = cand[j]]_vars
  /\ ((\E i \in Cands : Failed(i)) ~> AllSettled)

\* the request was answered 500 because of one candidate, and its two siblings
\* went through all their stages and stored their print PNGs
C11_Witness ==
  /\ resp = "error"
  /\ Len(cand) = 3
  /\ Cardinality({i \in Cands : Failed(i)}) = 1
  /\ \A j \in Cands : ~Failed(j) =>
        (Done(j) /\ Logged(j, "finalize", "Ok") /\ <<j, "print.png">> \in blobs)


\* C19: remove.bg is called for a candidate only if the request asked for
\* background removal and REMOVE_BG_KEY is set, the vectorizer only if
\* vectorization was asked for and both VECTORIZER_ID and VECTORIZER_SECRET are
\* set; otherwise the stage makes no call, logs nothing, stores nothing, and the
\* later stages get the raster they would get if the stage did not exist.
C19_ProvidersOnlyIfConfigured ==
  \A i \in Cands :
    LET c == cand[i]
        bgWanted == cfg.removeBg /\ cfg.bgKey
        vecWanted == cfg.vectorize /\ cfg.vecId /\ cfg.vecSecret
    IN
    /\ (c.pc = "removebg" \/ Ran(i, "removebg")) => bgWanted
    /\ (c.pc = "vectorize" \/ Ran(i, "vectorize")) => vecWanted
    /\ ~bgWanted =>
         /\ Ran(i, "vectorize") => c.vecIn = PreStage(i)
         /\ Ran(i, "pad_margin") => c.padIn = PreStage(i)
    /\ ~vecWanted =>
         /\ ~c.svgUrl /\ ~c.vectorPngUrl
         /\ <<i, "svg">> \notin blobs /\ <<i, "vector.png">> \notin blobs
    /\ (~bgWanted /\ ~vecWanted /\ Done(i)) =>
         /\ c.stageLog = << <<"normalize", "Ok">>, <<"pad_margin", "Ok">>,
                            <<"resize_trim", "Ok">>, <<"finalize", "Ok">> >>
         /\ c.resized = resizeContainWithPngjs(padTransparentPng(PreStage(i)),
                                               cfg.trimW, cfg.trimH)

\* both stages were requested; remove.bg has its key and ran, the vectorizer
\* lacks its secret and was left out
C19_Witness ==
  /\ cfg.removeBg /\ cfg.bgKey
  /\ cfg.vectorize /\ cfg.vecId /\ ~cfg.vecSecret
  /\ resp = "ok"
  /\ \E i \in Cands :
       cand[i].stageLog = << <<"normalize", "Ok">>, <<"removebg", "Ok">>,
                             <<"pad_margin", "Ok">>, <<"resize_trim", "Ok">>,
                             <<"finalize", "Ok">> >>

(***************************************************************************)
(* Claims about one processOne call (checked under SpecOne)                *)
(***************************************************************************)
\* C12: ensurePng never raises: a buffer with the PNG signature is returned as
\* is, a decodable non-PNG is returned re-encoded as PNG, undecodable bytes are
\* returned unchanged and flagged as not a PNG; pad_margin fails whenever it is
\* given undecodable bytes, and then there is no resized raster and no print PNG.
C12_NormalizeNeverRaises ==
  \A i \in Cands :
    LET c == cand[i]
        b == c.base
    IN
    /\ ~Logged(i, "normalize", "Failed")
    /\ c.pc # "normalize" => Logged(i, "normalize", "Ok")
    /\ ensurePng(b).isActuallyPng = (b.fmt = "png")
    /\ c.stageLog = << <<"normalize", "Ok">> >> =>
         /\ b.fmt = "png" => c.normalized = b
         /\ b.fmt = "jpeg" =>
              c.normalized = [src |-> b.src, fmt |-> "png", ops |-> <<"reencode">>]
         /\ b.fmt = "junk" => c.normalized = b
    /\ (Ran(i, "pad_margin") /\ c.padIn.fmt = "junk") =>
         /\ Logged(i, "pad_margin", "Failed")
         /\ Failed(i)
         /\ c.padded = NoBuf /\ c.resized = NoBuf
         /\ <<i, "print.png">> \notin blobs
    /\ Done(i) => (c.padIn.fmt = "png" /\ c.resized.fmt = "png")

\* undecodable bytes went through normalize untouched, remove.bg refused them,
\* and pad_margin then failed the candidate
C12_Witness ==
  \E i \in Cands :
    /\ cand[i].base.fmt = "junk"
    /\ Logged(i, "normalize", "Ok")
    /\ Logged(i, "removebg", "SkippedOptional")
    /\ cand[i].padIn = cand[i].base
    /\ Logged(i, "pad_margin", "Failed")
    /\ resp = "error"


(***************************************************************************)
(* Claims about the PNGJS helpers and the proof overlay (under SpecImg)    *)
(***************************************************************************)
Returned(fn) == imgCall.fn = fn /\ imgRet.pc = "returned"

\* C13: for a source of width, height >= 1 and a marginFraction in [0,1),
\* padTransparentPng returns an image of exactly (width+2*pad) x (height+2*pad)
\* with pad = max(1, floor(min(width,height)*marginFraction)); every pixel of
\* the pad-wide border is (0,0,0,0) and every source pixel (x,y) is found
\* unchanged at (x+pad, y+pad).
C13_PadGeometry ==
  (Returned("pad") /\ imgCall.marginFraction[1] >= 0
                   /\ imgCall.marginFraction[1] < imgCall.marginFraction[2]) =>
    LET src == imgCall.src
        mf == imgCall.marginFraction
        w == src.width
        h == src.height
        fl == (Min(w, h) * mf[1]) \div mf[2]
        pad == IF fl < 1 THEN 1 ELSE fl
        out == imgRet.r.out
    IN
    /\ imgRet.r.pad = pad
    /\ out.width = w + 2 * pad
    /\ out.height = h + 2 * pad
    /\ DOMAIN out.data = 0..((w + 2 * pad) * (h + 2 * pad) - 1)
    /\ \A x \in 0..(out.width - 1) : \A y \in 0..(out.height - 1) :
         (x < pad \/ x >= w + pad \/ y < pad \/ y >= h + pad) =>
            out.data[y * out.width + x] = <<0, 0, 0, 0>>
    /\ \A x \in 0..(w - 1) : \A y \in 0..(h - 1) :
         out.data[(y + pad) * out.width + (x + pad)] = src.data[y * w + x]

\* a 3x3 picture of nine different pixels padded by 2 on every side
C13_Witness ==
  /\ Returned("pad")
  /\ imgCall.src = SourceImage(3, 3, "index")
  /\ imgCall.marginFraction = <<9, 10>>
  /\ imgRet.r.pad = 2
  /\ imgRet.r.out.width = 7

\* C14: for source sides >= 1 and integer targets >= 1, contain mode gives
\* scaledW <= targetW and scaledH <= targetH; cover mode gives
\* scaledW >= targetW and scaledH >= targetH, and the centre crop reads only
\* positions inside the scaled image.
C14_ScaledSizes ==
  /\ Returned("contain") =>
       /\ imgRet.r.scaledW >= 1 /\ imgRet.r.scaledW <= imgCall.targetW
       /\ imgRet.r.scaledH >= 1 /\ imgRet.r.scaledH <= imgCall.targetH
  /\ Returned("cover") =>
       /\ imgRet.r.scaledW >= imgCall.targetW
       /\ imgRet.r.scaledH >= imgCall.targetH
       /\ imgRet.r.cropX + imgCall.targetW <= imgRet.r.scaledW
       /\ imgRet.r.cropY + imgCall.targetH <= imgRet.r.scaledH
       /\ imgRet.r.inside

\* a 3x1 source covering a 2x2 target: scaled to 6x2 and cropped by 2 columns
C14_Witness ==
  /\ Returned("cover")
  /\ imgCall.src.width = 3 /\ imgCall.src.height = 1
  /\ imgCall.targetW = 2 /\ imgCall.targetH = 2
  /\ imgRet.r.scaledW = 6 /\ imgRet.r.scaledH = 2
  /\ imgRet.r.cropX = 2

\* C15: the contain resampler returns a canvas of exactly targetW x targetH on
\* which the scaled content is centred (offset floor((target - scaled)/2) per
\* axis, opposite margins differing by at most 1), the scaled content lies
\* inside the canvas, and every canvas pixel outside the content rectangle is
\* (0,0,0,0).
C15_ContainCanvas ==
  Returned("contain") =>
    LET r == imgRet.r
        out == r.out
        tw == imgCall.targetW
        th == imgCall.targetH
        right == tw - r.scaledW - r.offsetX
        bottom == th - r.scaledH - r.offsetY
    IN
    /\ out.width = tw /\ out.height = th
    /\ DOMAIN out.data = 0..(tw * th - 1)
    /\ 2 * r.offsetX <= tw - r.scaledW /\ tw - r.scaledW <= 2 * r.offsetX + 1
    /\ 2 * r.offsetY <= th - r.scaledH /\ th - r.scaledH <= 2 * r.offsetY + 1
    /\ r.offsetX >= 0 /\ right - r.offsetX \in {0, 1}
    /\ r.offsetY >= 0 /\ bottom - r.offsetY \in {0, 1}
    /\ r.offsetX + r.scaledW <= tw /\ r.offsetY + r.scaledH <= th
    /\ r.fits
    /\ \A x \in 0..(tw - 1) : \A y \in 0..(th - 1) :
         IF /\ x >= r.offsetX /\ x < r.offsetX + r.scaledW
            /\ y >= r.offsetY /\ y < r.offsetY + r.scaledH
         THEN out.data[y * tw + x] =
                r.scaled.data[(y - r.offsetY) * r.scaledW + (x - r.offsetX)]
         ELSE out.data[y * tw + x] = <<0, 0, 0, 0>>

\* a 3x1 strip contained in 4x4: 4x1 content, 1 transparent row above, 2 below
C15_Witness ==
  /\ Returned("contain")
  /\ imgCall.src = SourceImage(3, 1, "index")
  /\ imgCall.targetW = 4 /\ imgCall.targetH = 4
  /\ imgRet.r.scaledW = 4 /\ imgRet.r.scaledH = 1
  /\ imgRet.r.offsetX = 0 /\ imgRet.r.offsetY = 1
  /\ imgRet.r.out.data[0] = <<0, 0, 0, 0>>

\* C16: contain-resampling a fully opaque, uniformly red square source to a
\* square target (100x100 to 50x50 among them) gives a target-size image whose
\* every pixel is (255,0,0,255), with scaled size = target size and both
\* offsets 0.
C16_UniformSquare ==
  ( /\ Returned("contain")
    /\ imgCall.src.width = imgCall.src.height
    /\ imgCall.targetW = imgCall.targetH
    /\ \A k \in DOMAIN imgCall.src.data : imgCall.src.data[k] = <<255, 0, 0, 255>> )
  =>
    /\ imgRet.r.scaledW = imgCall.targetW /\ imgRet.r.scaledH = imgCall.targetH
    /\ imgRet.r.offsetX = 0 /\ imgRet.r.offsetY = 0
    /\ imgRet.r.out.width = imgCall.targetW /\ imgRet.r.out.height = imgCall.targetH
    /\ \A k \in 0..(imgCall.targetW * imgCall.targetH - 1) :
         imgRet.r.out.data[k] = <<255, 0, 0, 255>>

\* the stated case: 100x100 red to 50x50
C16_Witness ==
  /\ Returned("contain")
  /\ imgCall.src.width = 100 /\ imgCall.src.height = 100
  /\ imgCall.targetW = 50 /\ imgCall.targetH = 50
  /\ imgRet.r.out.data[2499] = <<255, 0, 0, 255>>

\* C17 (as stated): for every destination coordinate of the bilinear resampler
\* the sample coordinate (dest + 0.5)/scale - 0.5 is clamped to [0, srcSize-1]
\* on both sides, on both axes: both taps index inside the source and the
\* fractional weight is the clamped coordinate minus the first tap.
ClampedNum(d, scale, size) ==
  Min(Max(SampleNum(d, scale), 0), (size - 1) * SampleDen(scale))
AxisClamped(scale, scaled, size) ==
  \A d \in 0..(scaled - 1) :
    /\ Tap0(d, scale) \in 0..(size - 1)
    /\ Tap1(d, scale, size) \in 0..(size - 1)
    /\ Weight1(d, scale) = ClampedNum(d, scale, size) - Tap0(d, scale) * SampleDen(scale)
    /\ Weight1(d, scale) >= 0 /\ Weight1(d, scale) <= SampleDen(scale)
    /\ Weight0(d, scale) >= 0

C17_SampleClampedBothSides ==
  Returned("contain") =>
    /\ AxisClamped(imgRet.r.scale, imgRet.r.scaledW, imgCall.src.width)
    /\ AxisClamped(imgRet.r.scale, imgRet.r.scaledH, imgCall.src.height)


\* C23 (as stated): every channel value the bilinear resampler writes is a
\* convex combination of its four source taps: the horizontal and the vertical
\* weights lie in [0,1], the value lies between the smallest and the largest
\* tap and in 0..255, so the byte stored is the value itself and never the
\* value modulo 256; for every source size and scale, upscaling included.
\* the four taps of channel c for destination (x, y), where they are read
TapValues(src, scale, x, y, c) ==
  {src.data[k][c] :
     k \in {yy * src.width + xx :
              xx \in {Tap0(x, scale), Tap1(x, scale, src.width)},
              yy \in {Tap0(y, scale), Tap1(y, scale, src.height)}}
          \cap DOMAIN src.data}
\* Math.round(v0 * wy0 + v1 * wy1) before it is stored into dData
RoundedValue(src, scale, x, y, c) ==
  LET x0 == Tap0(x, scale)
      x1 == Tap1(x, scale, src.width)
      y0 == Tap0(y, scale)
      y1 == Tap1(y, scale, src.height)
      v0 == src.data[y0 * src.width + x0][c] * Weight0(x, scale)
            + src.data[y0 * src.width + x1][c] * Weight1(x, scale)
      v1 == src.data[y1 * src.width + x0][c] * Weight0(x, scale)
            + src.data[y1 * src.width + x1][c] * Weight1(x, scale)
  IN  MathRound(v0 * Weight0(y, scale) + v1 * Weight1(y, scale),
                SampleDen(scale) * SampleDen(scale))
WeightsInUnitInterval(d, scale) ==
  /\ Weight1(d, scale) >= 0 /\ Weight1(d, scale) <= SampleDen(scale)
  /\ Weight0(d, scale) >= 0 /\ Weight0(d, scale) <= SampleDen(scale)

C23_ConvexCombination ==
  Returned("contain") =>
    LET src == imgCall.src
        scale == imgRet.r.scale
    IN  \A x \in 0..(imgRet.r.scaledW - 1), y \in 0..(imgRet.r.scaledH - 1) :
          /\ WeightsInUnitInterval(x, scale)
          /\ WeightsInUnitInterval(y, scale)
          /\ \A c \in 1..4 :
               /\ Tap1(x, scale, src.width) >= Tap0(x, scale)
               /\ Tap1(y, scale, src.height) >= Tap0(y, scale)
               /\ Tap0(x, scale) < src.width /\ Tap0(y, scale) < src.height
               /\ LET v == RoundedValue(src, scale, x, y, c)
                      taps == TapValues(src, scale, x, y, c)
                  IN  /\ \E t \in taps : t <= v
                      /\ \E t \in taps : v <= t
                      /\ v \in 0..255
                      /\ imgRet.r.scaled.data[y * imgRet.r.scaledW + x][c] = v


\* C18: the proof overlay returns a copy and leaves the final raster as it was;
\* on a WxH canvas with bleedPx = B and safety margin S the pixels of the copy
\* that differ from the final raster all lie in the 2-pixel-wide red bands at
\* inset B from an edge or in the 2-pixel-wide green bands at inset B+S from an
\* edge; every other pixel is the pixel of the final raster.
\* the four full-length red bands at inset B
InRedBand(x, y, W, H, B) ==
  \/ y \in {B, B + 1}
  \/ y \in {H - B - 2, H - B - 1}
  \/ x \in {B, B + 1}
  \/ x \in {W - B - 2, W - B - 1}
\* the four green bands at inset I, each as long as the safe box
InGreenBand(x, y, W, H, I) ==
  \/ (y \in {I, I + 1} \/ y \in {H - I - 2, H - I - 1}) /\ x >= I /\ x < W - I
  \/ (x \in {I, I + 1} \/ x \in {W - I - 2, W - I - 1}) /\ y >= I /\ y < H - I

C18_ProofOverlayFrame ==
  /\ [][imgCall.fn = "proof" => imgCall' = imgCall]_vars
  /\ [](Returned("proof") =>
         LET final == imgCall.finalPng
             proof == imgRet.proofPng
             W == final.width
             H == final.height
             B == 38
             S == 38
         IN
         /\ proof.width = W /\ proof.height = H
         /\ \A x \in 0..(W - 1) : \A y \in 0..(H - 1) :
              ProofPixel(proof, y * W + x) # <<FinalPixel(final, y * W + x)>> =>
                 (InRedBand(x, y, W, H, B) \/ InGreenBand(x, y, W, H, B + S)))

\* a 165x159 proof: a pixel on the red trim line, a pixel where the green safe
\* line was drawn, and the centre pixel untouched
C18_Witness ==
  /\ Returned("proof")
  /\ imgCall.finalPng.width = 165 /\ imgCall.finalPng.height = 159
  /\ ProofPixel(imgRet.proofPng, 38 * 165 + 0) = <<FinalPixel(imgCall.finalPng, 38 * 165), "red">>
  /\ ProofPixel(imgRet.proofPng, 76 * 165 + 80) = <<<<255, 0, 0, 255>>, "green">>
  /\ ProofPixel(imgRet.proofPng, 79 * 165 + 82) = <<<<0, 0, 0, 0>>>>


(***************************************************************************)
(* Claims about lib/gallery (checked under SpecGal)                        *)
(***************************************************************************)
\* call p completes with this step (its ltrim has been answered)
Completes(p) == addPc[p].pc = "ltrim" /\ addPc'[p].pc = "done"
ItemSet(list) == {list[k] : k \in 1..Len(list)}

\* C20 (as stated): after every completed addToGallery call gallery:items holds
\* at most 1000 entries, the id just added is at its head, the entries dropped
\* by the trim are the oldest ones, and every id in the list has a stored
\* document gallery:item:{id}.
C20_AddedAtHead ==
  [][\A p \in DOMAIN addPc : Completes(p) =>
        /\ Len(galleryItems') <= 1000
        /\ Head(galleryItems') = addPc[p].id
        /\ IsPrefix(galleryItems', galleryItems)
        /\ ItemSet(galleryItems') \subseteq galleryDocs']_vars

\* C20 (amended): after every completed addToGallery call gallery:items holds
\* at most 1000 entries, the entries dropped by the trim are the oldest ones,
\* every id in the list has a stored document, and the id just added is
\* preceded exactly by the ids that other calls pushed between this call's
\* lpush and its ltrim: it is at the head when there was no such push.
C20_AddedBehindLaterPushes ==
  [][\A p \in DOMAIN addPc : Completes(p) =>
        /\ Len(galleryItems') <= 1000
        /\ addPc[p].after + 1 <= Len(galleryItems')
        /\ galleryItems'[addPc[p].after + 1] = addPc[p].id
        /\ (addPc[p].after = 0 => Head(galleryItems') = addPc[p].id)
        /\ \A k \in 1..addPc[p].after :
             \E q \in DOMAIN addPc :
                q # p /\ addPc[q].id = galleryItems'[k] /\ addPc[q].pc \in {"ltrim", "done", "threw"}
        /\ IsPrefix(galleryItems', galleryItems)
        /\ ItemSet(galleryItems') \subseteq galleryDocs']_vars

\* 1000 entries before; two calls overlapped, the first to push completed
\* second in the list, and the two oldest entries were dropped
C20_Witness ==
  /\ \A p \in DOMAIN addPc : addPc[p].pc = "done"
  /\ \E p \in DOMAIN addPc :
       /\ addPc[p].after = 1
       /\ galleryItems[2] = addPc[p].id
  /\ Len(galleryItems) = 1000
  /\ galleryItems[1000] = 3
  /\ galleryDocs = 1..1002


(***************************************************************************)
(* Claims about the download proxy (checked under SpecDl)                  *)
(***************************************************************************)
\* the request is a GET whose url parameter is present, parses as a URL and
\* names a host that ends in .blob.vercel-storage.com, whatever its case
DlRequestQualifies ==
  /\ dlReq.method = "GET"
  /\ dlReq.url.kind = "url"
  /\ LET h == dlReq.url.host
     IN  /\ Len(h) > 3
         /\ LowerLabel(h[Len(h) - 2]) = "blob"
         /\ LowerLabel(h[Len(h) - 1]) = "vercel-storage"
         /\ LowerLabel(h[Len(h)]) = "com"

\* C21: the download proxy performs an upstream fetch only for a GET request
\* whose url parameter is present, parses as a URL and has a hostname ending in
\* '.blob.vercel-storage.com'; every other request is answered with 405 or 400
\* and no upstream fetch is made for it.
C21_FetchOnlyForAllowedHost ==
  /\ dlRun.fetches # <<>> => DlRequestQualifies
  /\ (dlRun.pc = "done" /\ ~DlRequestQualifies) =>
        /\ dlRun.status \in {400, 405}
        /\ dlRun.fetches = <<>>
  /\ Len(dlRun.fetches) <= 1

\* a GET for an allowed host written in upper case was fetched upstream and
\* answered 200
C21_Witness ==
  /\ dlRun.pc = "done"
  /\ dlRun.status = 200
  /\ dlRun.fetches # <<>>
  /\ dlReq.url.host[2] = "BLOB"


(***************************************************************************)
(* Claims about the moderation endpoint (checked under SpecMod)            *)
(***************************************************************************)
\* the request carries, as bearer or as query token, the text t
Carries(req, t) ==
  /\ t # "undefined"
  /\ \/ (req.authorization # "undefined" /\ StripBearer(req.authorization) = t)
     \/ req.token = t

\* C26 (as stated): the moderation endpoint changes the status of an item only
\* for a POST request that carries a token equal to the configured
\* ADMIN_API_TOKEN; when no ADMIN_API_TOKEN is configured no request, with or
\* without a token, is authorized; a rejected request leaves every stored item
\* unchanged.
C26_OnlyWithAdminToken ==
  /\ docStatus # modRun.before =>
       /\ modReq.method = "POST"
       /\ adminToken # "undefined"
       /\ Carries(modReq, adminToken)
  /\ adminToken = "undefined" => ~modRun.authorized
  /\ modRun.status \in {401, 405} => docStatus = modRun.before


(***************************************************************************)
(* Claims about the normalize endpoint (checked under SpecNorm)            *)
(***************************************************************************)
\* the ids of the entries of a list in list order, a legacy entry counted as
\* the id of its document
IdsInOrder(list) ==
  LET kept == SelectSeq(list, LAMBDA e : e > 0 \/ IsLegacyItem(e))
  IN  [k \in DOMAIN kept |-> IF kept[k] > 0 THEN kept[k] ELSE -kept[k]]
\* normalize has rewritten the list and answered 200
Rewrote == normRun.pc = "done" /\ normRun.status = 200 /\ normRun.ids # <<>>

\* C22 (as stated): when normalize rewrites gallery:items (delete, then push
\* the collected ids back) and nothing else touches the list meanwhile, the
\* list afterwards holds the ids in the newest-first order they had before; in
\* particular the id at the head before the rewrite is at the head after it.
C22_RewriteKeepsOrder ==
  (Rewrote /\ addPc[1].pc = "start") =>
    /\ galleryItems = IdsInOrder(normRun.raw)
    /\ Head(galleryItems) = Head(IdsInOrder(normRun.raw))

\* C27 (as stated): an addToGallery call that overlaps a normalize run is
\* never lost: once both have completed (normalize with 200, addToGallery by
\* returning), the added id is in gallery:items, whatever the interleaving of
\* their Redis requests.
C27_AddNeverLost ==
  (normRun.pc = "done" /\ normRun.status = 200 /\ galleryRedis
     /\ addPc[1].pc = "done") =>
    addPc[1].id \in ItemSet(galleryItems)


(***************************************************************************)
(* Claims about the sharp revisions of the generate endpoint (SpecGen)     *)
(***************************************************************************)
\* C24 (as stated): the external image generator is never called for a request
\* whose widthIn or heightIn is not a positive finite number (zero, negative,
\* NaN or infinite); such a request is rejected before any generation attempt.
C24_NoGenerationForBadDims ==
  genRun.calls > 0 =>
    /\ PositiveFinite(genReq.widthIn)
    /\ PositiveFinite(genReq.heightIn)

\* C25 (as stated): for positive widthIn and heightIn at 300 dpi and 0.125 in
\* bleed, the rectangle bounded by the proof's trim inset has exactly the trim
\* size (finalW - 2*bleedPx = trimW, finalH - 2*bleedPx = trimH) and the
\* trim-sized image composited at round((final - trim)/2) has its four edges
\* on that inset: bleedPx pixels of bleed on every side.
C25_BleedOnEverySide ==
  (genReq.handler = "route" /\ genRun.pc \in {"put", "done"} /\ genRun.bleedPx > 0) =>
    LET g == genRun.g
        B == genRun.bleedPx
    IN  /\ g.finalW.v - 2 * B = g.trimW.v
        /\ g.finalH.v - 2 * B = g.trimH.v
        /\ genRun.left = B
        /\ genRun.top = B
        /\ genRun.left + g.trimW.v = g.finalW.v - B
        /\ genRun.top + g.trimH.v = g.finalH.v - B

=============================================================================
